---- MODULE Spec2Model ----
(***************************************************************************)
(* Verification model of LichtFeld-Studio: the viewer / trainer threading  *)
(* (GSViewer), the SplatData population, Camera, the COLMAP readers and    *)
(* the dataset factories.                                                  *)
(***************************************************************************)
EXTENDS Integers, Sequences, FiniteSets, TLC

\* ------------------------------------------------------------------------
\* Bounds
\* ------------------------------------------------------------------------
MaxIter == 2        \* training iterations a run performs before it completes
MaxThreads == 2     \* training threads launched in one run of the viewer

MaxGaussians == 3   \* rows a trained population may grow to
MaxExports == 4     \* save_ply calls in one run

MaxRecords == 2     \* records of a binary COLMAP file read on its own
MaxCams == 2        \* cameras of a COLMAP dataset
MaxImages == 2      \* images of a COLMAP dataset
MaxFrames == 2      \* frames of a transforms.json

MaxMissing == 1     \* keys left out of optimization_params.json
MaxChanged == 2     \* keys of it that carry a value other than the default

MaxSplats == 2      \* Gaussians of a rasterized model
MaxRenders == 2     \* calls of fast_rasterize in one run

MaxDataset == 3     \* cameras of the dataset behind a data loader
MaxWorkers == 2     \* worker threads of a data loader
MaxEpochs == 2      \* epochs iterated in one run
MaxN == 2           \* Gaussians projected per camera
MaxDropped == 2     \* paths of one file-drop event
MaxSplitCams == 4   \* cameras of a CameraDataset that is split
MaxTestEvery == 3   \* largest test_every of a split CameraDataset
MaxPlys == 1        \* PLY outputs recorded in a project
MaxProjectOps == 3  \* operations called on a project in one run
MaxMigrators == 1   \* migrators registered with a MigratorRegistry

\* ------------------------------------------------------------------------
\* State
\* ------------------------------------------------------------------------

\* GSViewer and the training thread
VARIABLES
    trainer_,               \* GSViewer::trainer_ is non-null
    training_thread_,       \* "null" | "joinable" | "joined"
    live_threads,           \* launched threads whose train() was not joined
    stop_requested,         \* stop token of the jthread
    trainer_stop,           \* Trainer::request_stop() was called
    ready,                  \* notifier_->ready
    is_running_,            \* Trainer::is_running()
    tpc,                    \* position of the training thread
    iter,                   \* Trainer: current iteration
    render_mutex,           \* [writer |-> BOOLEAN, readers |-> Nat]
    mpc,                    \* position of the main (GUI) thread
    caller,                 \* operation that called clearCurrentData
    scene_model,            \* Scene provider: "none" | "standalone" | "trainer"
    current_mode_,          \* ViewerMode
    current_ply_path_,      \* "" or a path
    current_dataset_path_,  \* "" or a path
    info_,                  \* TrainingInfo counters
    df_locked,              \* this frame took the shared_lock branch
    threads_started         \* training threads launched so far

viewer_vars == <<trainer_, training_thread_, live_threads, stop_requested,
                 trainer_stop, ready, is_running_, tpc, iter, render_mutex,
                 mpc, caller, scene_model, current_mode_, current_ply_path_,
                 current_dataset_path_, info_, df_locked, threads_started>>

\* Scene and the density-control strategy
VARIABLES
    nodes_,             \* Scene::nodes_
    cached_combined_,   \* Scene::cached_combined_ (Null when reset)
    cache_valid_,       \* Scene::cache_valid_
    strategy            \* trainer-owned SplatData and its optimizer moments

scene_vars == <<nodes_, cached_combined_, cache_valid_, strategy>>

\* Asynchronous PLY export of a SplatData
VARIABLES
    _save_threads,      \* SplatData::_save_threads: [iteration, state] records
    splat_alive,        \* the SplatData has not been destroyed
    save_pc,            \* position of the caller inside save_ply
    save_arg,           \* arguments of the save_ply call in progress
    ply_files,          \* iterations whose PLY file has been written
    exports_started     \* save_ply calls so far

export_vars == <<_save_threads, splat_alive, save_pc, save_arg, ply_files,
                 exports_started>>

\* A Camera shared by the data-loader workers
VARIABLES
    camera,             \* the fields of one Camera
    worker              \* per worker: position inside load_and_get_image, w, h

camera_vars == <<camera, worker>>

\* The dataset loader (COLMAP and transforms formats)
VARIABLES
    fs,                 \* what is on disk under data_path, and the dataset config
    rd,                 \* the binary reader in progress: buffer, cursor, results
    ds                  \* create_dataset_from_*: position and result

loader_vars == <<fs, rd, ds>>

\* The optimization parameters read from optimization_params.json
VARIABLES
    config_file,        \* optimization_params.json on disk
    optim               \* read_optim_params_from_json: position, json, params

param_vars == <<config_file, optim>>

\* The fast rasterizer path
VARIABLES
    gaussian_model,     \* the SplatData given to fast_rasterize
    bg_color,           \* the background colour given to fast_rasterize
    render_outputs      \* the RenderOutput of each call so far, with its bg_color

raster_vars == <<gaussian_model, bg_color, render_outputs>>

\* The data loader over a CameraDataset
VARIABLES
    data_loader,        \* options chosen by create_dataloader_from_dataset, and position
    sampler,            \* RandomSampler: the indices of this epoch not yet handed out
    job_queue,          \* indices handed to the workers and not yet taken
    worker_job,         \* per worker: the index it is loading, or -1
    result_queue,       \* loaded examples not yet returned by the iterator
    yielded,            \* indices the iterator returned in this epoch, in order
    epochs_done

dl_vars == <<data_loader, sampler, job_queue, worker_job, result_queue, yielded, epochs_done>>

\* Tile intersection (gsplat::intersect_tile, gsplat::intersect_offset and the
\* reference isect_tiles the test compares them with).
VARIABLES
    isect            \* inputs and outputs of one tile-intersection run

tile_vars == <<isect>>

\* Drag and drop onto the viewer window
VARIABLES
    drop                \* the last file-drop event: paths, loads made, return value

drop_vars == <<drop>>

\* RenderingEngineImpl
VARIABLES
    quad_shader_,       \* quad_shader_.valid()
    screen_renderer_,   \* screen_renderer_ is non-null
    render_call,        \* the last renderGaussians call: request size, pipeline use, result
    renderers_,         \* member renderers (grid, bbox, axes, gizmo) whose init succeeded
    init_call,          \* the last initialize() call and what it returned
    started,            \* a successful initialize() was not followed by shutdown() yet
    op_call             \* the last call of another public operation, and what it did

engine_vars == <<quad_shader_, screen_renderer_, render_call, renderers_, init_call,
                 started, op_call>>

\* RenderingManager
VARIABLES
    needs_render_,      \* RenderingManager::needs_render_
    cached_result_,     \* the cached RenderResult: what it was rendered for, or no image
    last_render_size_,  \* render size of the last frame with a valid size
    last_model_ptr_,    \* model pointer of the last frame with a valid size (0 is null)
    cache_stale,        \* markDirty() was called since cached_result_ was rendered
    frame               \* what the last renderFrame did and put on screen

manager_vars == <<needs_render_, cached_result_, last_render_size_, last_model_ptr_,
                  cache_stale, frame>>

\* CameraDataset and its splits
VARIABLES
    split_input,        \* the camera vector and test_every given to the constructors
    datasets,           \* per Split: whether it was constructed, and its _indices
    get_call            \* the last CameraDataset::get call and its outcome

split_vars == <<split_input, datasets, get_call>>

\* Project and its project file
VARIABLES
    project_data_,          \* Project::project_data_
    output_file_name_,      \* Project::output_file_name_ ("" when unset)
    update_file_on_change_, \* Project::update_file_on_change_
    migrators_,             \* MigratorRegistry::migrators_
    project_file,           \* the project file on disk
    read_call,              \* the last readFromFile call and how it ended
    project_ops             \* operations called on the project so far

project_vars == <<project_data_, output_file_name_, update_file_on_change_, migrators_,
                  project_file, read_call, project_ops>>

\* Variables an action of one component leaves alone.
non_viewer_vars == <<scene_vars, export_vars, camera_vars, loader_vars, param_vars, raster_vars, dl_vars, tile_vars, drop_vars, engine_vars, manager_vars, split_vars, project_vars>>
non_scene_vars == <<viewer_vars, export_vars, camera_vars, loader_vars, param_vars, raster_vars, dl_vars, tile_vars, drop_vars, engine_vars, manager_vars, split_vars, project_vars>>
non_export_vars == <<viewer_vars, scene_vars, camera_vars, loader_vars, param_vars, raster_vars, dl_vars, tile_vars, drop_vars, engine_vars, manager_vars, split_vars, project_vars>>
non_camera_vars == <<viewer_vars, scene_vars, export_vars, loader_vars, param_vars, raster_vars, dl_vars, tile_vars, drop_vars, engine_vars, manager_vars, split_vars, project_vars>>
non_loader_vars == <<viewer_vars, scene_vars, export_vars, camera_vars, param_vars, raster_vars, dl_vars, tile_vars, drop_vars, engine_vars, manager_vars, split_vars, project_vars>>
non_param_vars == <<viewer_vars, scene_vars, export_vars, camera_vars, loader_vars, raster_vars, dl_vars, tile_vars, drop_vars, engine_vars, manager_vars, split_vars, project_vars>>
non_raster_vars == <<viewer_vars, scene_vars, export_vars, camera_vars, loader_vars, param_vars, dl_vars, tile_vars, drop_vars, engine_vars, manager_vars, split_vars, project_vars>>
non_dl_vars == <<viewer_vars, scene_vars, export_vars, camera_vars, loader_vars, param_vars, raster_vars, tile_vars, drop_vars, engine_vars, manager_vars, split_vars, project_vars>>
non_tile_vars == <<viewer_vars, scene_vars, export_vars, camera_vars, loader_vars, param_vars, raster_vars, dl_vars, drop_vars, engine_vars, manager_vars, split_vars, project_vars>>
non_drop_vars == <<viewer_vars, scene_vars, export_vars, camera_vars, loader_vars, param_vars, raster_vars, dl_vars, tile_vars, engine_vars, manager_vars, split_vars, project_vars>>
non_viewerdrop_vars == <<scene_vars, export_vars, camera_vars, loader_vars, param_vars, raster_vars, dl_vars, tile_vars, engine_vars, manager_vars, split_vars, project_vars>>
non_engine_vars == <<viewer_vars, scene_vars, export_vars, camera_vars, loader_vars, param_vars, raster_vars, dl_vars, tile_vars, drop_vars, manager_vars, split_vars, project_vars>>
non_manager_vars == <<viewer_vars, scene_vars, export_vars, camera_vars, loader_vars, param_vars, raster_vars, dl_vars, tile_vars, drop_vars, engine_vars, split_vars, project_vars>>
non_split_vars == <<viewer_vars, scene_vars, export_vars, camera_vars, loader_vars, param_vars, raster_vars, dl_vars, tile_vars, drop_vars, engine_vars, manager_vars, project_vars>>
non_project_vars == <<viewer_vars, scene_vars, export_vars, camera_vars, loader_vars, param_vars, raster_vars, dl_vars, tile_vars, drop_vars, engine_vars, manager_vars, split_vars>>

vars == <<viewer_vars, scene_vars, export_vars, camera_vars, loader_vars, param_vars, raster_vars, dl_vars, tile_vars, drop_vars, engine_vars, manager_vars, split_vars, project_vars>>

\* ------------------------------------------------------------------------
\* SplatData, Scene and the density-control strategy
\* ------------------------------------------------------------------------
\* The six per-primitive tensors of a SplatData.
Tensors == {"means", "sh0", "shN", "scaling", "rotation", "opacity"}

Null == [isnull |-> TRUE]

\* SplatData(sh_degree, means, sh0, shN, scaling, rotation, opacity, scale):
\* each tensor is the sequence of its rows; a row is the id of its primitive.
SplatData(sh_degree, means, sh0, shN, shN_cols, scaling, rotation, opacity) ==
    [isnull |-> FALSE, sh_degree |-> sh_degree, means |-> means, sh0 |-> sh0,
     shN |-> shN, shN_cols |-> shN_cols, scaling |-> scaling,
     rotation |-> rotation, opacity |-> opacity]

\* SplatData::size(): _means.size(0).
size(m) == Len(m.means)

\* shN().numel(): rows * coefficients * 3.
shN_numel(m) == Len(m.shN) * m.shN_cols * 3

\* sh_coefficients(degree): {1, (degree + 1)^2 - 1}.
sh_coefficients(degree) == <<1, (degree + 1) * (degree + 1) - 1>>

\* A loaded model: every tensor holds one row per primitive of ids; a row of
\* shN also records how many coefficients it carries.
LoadedModel(ids, degree) ==
    SplatData(degree, ids, ids,
              [i \in 1..Len(ids) |-> <<ids[i], sh_coefficients(degree)[2]>>],
              sh_coefficients(degree)[2], ids, ids, ids)

\* Models the viewer is given (PLY files of one or two primitives).
Models == {LoadedModel(<<1>>, 0), LoadedModel(<<2, 3>>, 1), LoadedModel(<<4>>, 1)}

NodeNames == {"a", "b"}

Node(name, model, gaussian_count) ==
    [name |-> name, model |-> model, transform |-> "identity", visible |-> TRUE,
     gaussian_count |-> gaussian_count]

RECURSIVE SumSizes(_)
SumSizes(ms) == IF ms = <<>> THEN 0 ELSE size(Head(ms)) + SumSizes(Tail(ms))

RECURSIVE MaxDegree(_)
MaxDegree(ms) ==
    IF ms = <<>> THEN 0
    ELSE LET r == MaxDegree(Tail(ms))
         IN IF Head(ms).sh_degree > r THEN Head(ms).sh_degree ELSE r

\* nodes_ | filter(visible && model) | transform(model.get()).
VisibleModels(nodes) ==
    LET Keep(n) == n.visible /\ ~n.model.isnull
    IN [i \in 1..Len(SelectSeq(nodes, Keep)) |-> SelectSeq(nodes, Keep)[i].model]

\* Row offset of the k-th visible model in the combined tensors.
Offset(vm, k) == SumSizes(SubSeq(vm, 1, k - 1))

\* The visible model whose slice covers row i of the combined tensors.
Owner(vm, i) ==
    CHOOSE k \in 1..Len(vm) : Offset(vm, k) < i /\ i <= Offset(vm, k) + size(vm[k])

\* A tensor allocated with `rows` rows and filled slice by slice.
Filled(vm, t, rows) ==
    [i \in 1..rows |-> vm[Owner(vm, i)][t][i - Offset(vm, Owner(vm, i))]]

Min(a, b) == IF a < b THEN a ELSE b

\* combined.shN: zeros, overwritten for the models that carry shN by their
\* first min(model coefficients, shN_coeffs) coefficients.
FilledShN(vm, rows, shN_coeffs) ==
    [i \in 1..rows |->
        LET m == vm[Owner(vm, i)]
        IN IF shN_coeffs > 0 /\ shN_numel(m) > 0
           THEN <<m.shN[i - Offset(vm, Owner(vm, i))][1], Min(m.shN_cols, shN_coeffs)>>
           ELSE <<0, 0>>]

\* A combined model whose opacity tensor is allocated per model, not per row.
CombinedModel_OpacityPerModel(vm) ==
    LET total == SumSizes(vm)
        deg == MaxDegree(vm)
        has_shN == \E k \in 1..Len(vm) : shN_numel(vm[k]) > 0
    IN SplatData(deg, Filled(vm, "means", total), Filled(vm, "sh0", total),
                 FilledShN(vm, total, sh_coefficients(deg)[2]),
                 IF has_shN THEN sh_coefficients(deg)[2] ELSE 0,
                 Filled(vm, "scaling", total), Filled(vm, "rotation", total),
                 Filled(vm, "opacity", Len(vm)))

\* The SplatData built by rebuildCacheIfNeeded from the visible models.
CombinedModel(vm) ==
    LET total == SumSizes(vm)
        deg == MaxDegree(vm)
        has_shN == \E k \in 1..Len(vm) : shN_numel(vm[k]) > 0
    IN SplatData(deg, Filled(vm, "means", total), Filled(vm, "sh0", total),
                 FilledShN(vm, total, sh_coefficients(deg)[2]),
                 IF has_shN THEN sh_coefficients(deg)[2] ELSE 0,
                 Filled(vm, "scaling", total), Filled(vm, "rotation", total),
                 Filled(vm, "opacity", total))

\* Position of the node called name, 0 when there is none (std::find_if).
FindNode(nodes, name) ==
    IF \E i \in 1..Len(nodes) : nodes[i].name = name
    THEN CHOOSE i \in 1..Len(nodes) :
            /\ nodes[i].name = name
            /\ \A j \in 1..(i - 1) : nodes[j].name # name
    ELSE 0

\* erase(it)
RemoveAt(seq, i) == SubSeq(seq, 1, i - 1) \o SubSeq(seq, i + 1, Len(seq))

SceneInit ==
    /\ nodes_ = <<>>
    /\ cached_combined_ = Null
    /\ cache_valid_ = FALSE
    /\ strategy = [model |-> LoadedModel(<<5>>, 0),
                   moments |-> [t \in Tensors |-> <<0>>]]

\* An addNode that appends without looking for the name.
addNode_AlwaysAppend(name, model) ==
    /\ nodes_' = Append(nodes_, Node(name, model, size(model)))
    /\ cache_valid_' = FALSE
    /\ UNCHANGED <<cached_combined_, strategy>>
    /\ UNCHANGED non_scene_vars

\* Scene::addNode(name, model)
addNode(name, model) ==
    LET gaussian_count == size(model)
        it == FindNode(nodes_, name)
    IN /\ nodes_' = IF it # 0
                    THEN [nodes_ EXCEPT ![it].model = model,
                                        ![it].gaussian_count = gaussian_count]
                    ELSE Append(nodes_, Node(name, model, gaussian_count))
       /\ cache_valid_' = FALSE
       /\ UNCHANGED <<cached_combined_, strategy>>
       /\ UNCHANGED non_scene_vars

\* Scene::removeNode(name)
removeNode(name) ==
    LET it == FindNode(nodes_, name)
    IN /\ it # 0
       /\ nodes_' = RemoveAt(nodes_, it)
       /\ cache_valid_' = FALSE
       /\ UNCHANGED <<cached_combined_, strategy>>
       /\ UNCHANGED non_scene_vars

\* A setNodeVisibility that leaves the cache valid.
setNodeVisibility_NoInvalidate(name, visible) ==
    LET it == FindNode(nodes_, name)
    IN /\ it # 0
       /\ nodes_[it].visible # visible
       /\ nodes_' = [nodes_ EXCEPT ![it].visible = visible]
       /\ UNCHANGED <<cache_valid_, cached_combined_, strategy>>
       /\ UNCHANGED non_scene_vars

\* Scene::setNodeVisibility(name, visible)
setNodeVisibility(name, visible) ==
    LET it == FindNode(nodes_, name)
    IN /\ it # 0
       /\ nodes_[it].visible # visible
       /\ nodes_' = [nodes_ EXCEPT ![it].visible = visible]
       /\ cache_valid_' = FALSE
       /\ UNCHANGED <<cached_combined_, strategy>>
       /\ UNCHANGED non_scene_vars

\* Scene::clear()
clear ==
    /\ nodes_' = <<>>
    /\ cached_combined_' = Null
    /\ cache_valid_' = FALSE
    /\ UNCHANGED strategy
    /\ UNCHANGED non_scene_vars

\* Scene::rebuildCacheIfNeeded()
rebuildCacheIfNeeded ==
    /\ ~cache_valid_
    /\ LET visible_models == VisibleModels(nodes_)
       IN cached_combined_' = IF visible_models = <<>>
                              THEN Null
                              ELSE CombinedModel(visible_models)
    /\ cache_valid_' = TRUE

\* Scene::getCombinedModel()
getCombinedModel ==
    /\ rebuildCacheIfNeeded
    /\ UNCHANGED <<nodes_, strategy>>
    /\ UNCHANGED non_scene_vars

\* Scene::getTotalGaussianCount(): the gaussian_count of the visible nodes.
RECURSIVE getTotalGaussianCount(_)
getTotalGaussianCount(nodes) ==
    IF nodes = <<>> THEN 0
    ELSE (IF Head(nodes).visible THEN Head(nodes).gaussian_count ELSE 0)
            + getTotalGaussianCount(Tail(nodes))

\* Scene::getMutableNode(name): the cache is invalidated when the node is
\* found, before the pointer is handed out.
getMutableNode(name) ==
    /\ FindNode(nodes_, name) # 0
    /\ cache_valid_' = FALSE
    /\ UNCHANGED <<nodes_, cached_combined_, strategy>>
    /\ UNCHANGED non_scene_vars

\* Rows of seq at the positions in keep, in order (boolean-mask compaction).
RECURSIVE Masked(_, _)
Masked(seq, keep) ==
    IF seq = <<>> THEN <<>>
    ELSE LET rest == Masked(SubSeq(seq, 1, Len(seq) - 1), keep)
         IN IF Len(seq) \in keep THEN Append(rest, seq[Len(seq)]) ELSE rest

\* Densify (clone): the selected rows are appended to every per-primitive
\* tensor; their optimizer moments start at zero.
Densify ==
    \E src \in 1..size(strategy.model) :
        /\ size(strategy.model) < MaxGaussians
        /\ strategy' =
             [model |-> [t \in DOMAIN strategy.model |->
                            IF t \in Tensors
                            THEN Append(strategy.model[t], strategy.model[t][src])
                            ELSE strategy.model[t]],
              moments |-> [t \in Tensors |-> Append(strategy.moments[t], 0)]]
        /\ UNCHANGED <<nodes_, cached_combined_, cache_valid_>>
        /\ UNCHANGED non_scene_vars

\* Prune: rows are removed from every per-primitive tensor and from the
\* moments with one boolean mask.
Prune ==
    \E keep \in SUBSET (1..size(strategy.model)) :
        /\ keep # 1..size(strategy.model)
        /\ keep # {}
        /\ strategy' =
             [model |-> [t \in DOMAIN strategy.model |->
                            IF t \in Tensors
                            THEN Masked(strategy.model[t], keep)
                            ELSE strategy.model[t]],
              moments |-> [t \in Tensors |-> Masked(strategy.moments[t], keep)]]
        /\ UNCHANGED <<nodes_, cached_combined_, cache_valid_>>
        /\ UNCHANGED non_scene_vars

\* The optimizer accumulates moments for every row.
OptimizerStep ==
    /\ \E t \in Tensors : \E i \in 1..Len(strategy.moments[t]) : strategy.moments[t][i] = 0
    /\ strategy' = [strategy EXCEPT !.moments =
                        [t \in Tensors |-> [i \in 1..Len(strategy.moments[t]) |-> 1]]]
    /\ UNCHANGED <<nodes_, cached_combined_, cache_valid_>>
    /\ UNCHANGED non_scene_vars

\* ------------------------------------------------------------------------
\* SplatData::save_ply and its export threads
\* ------------------------------------------------------------------------
NoArg == [iteration |-> 0, join_thread |-> FALSE]

ExportInit ==
    /\ _save_threads = <<>>
    /\ splat_alive = TRUE
    /\ save_pc = "idle"
    /\ save_arg = NoArg
    /\ ply_files = {}
    /\ exports_started = 0

Writing(threads) == {i \in 1..Len(threads) : threads[i].state = "writing"}

\* save_ply(root, iteration, join_thread): the call is entered.
save_ply(iteration, join_thread) ==
    /\ splat_alive
    /\ save_pc = "idle"
    /\ exports_started < MaxExports
    /\ exports_started' = exports_started + 1
    /\ save_arg' = [iteration |-> iteration, join_thread |-> join_thread]
    /\ save_pc' = "cleanup"
    /\ UNCHANGED <<_save_threads, splat_alive, ply_files>>
    /\ UNCHANGED non_export_vars

\* A save_ply that sweeps only the threads already finished before it starts
\* the next export.
SaveStart_SweepFinishedOnly ==
    /\ save_pc = "cleanup"
    /\ LET Running(t) == t.state = "writing"
       IN IF save_arg.join_thread
          THEN /\ _save_threads' = SelectSeq(_save_threads, Running)
               /\ save_pc' = "sync_write"
               /\ UNCHANGED save_arg
          ELSE /\ _save_threads' = Append(SelectSeq(_save_threads, Running),
                                          [iteration |-> save_arg.iteration,
                                           state |-> "writing"])
               /\ save_pc' = "idle"
               /\ save_arg' = NoArg
    /\ UNCHANGED <<splat_alive, ply_files, exports_started>>
    /\ UNCHANGED non_export_vars

\* cleanup_finished_threads() joins the exports still recorded; then the new
\* export starts, on a thread of its own unless join_thread is set.
SaveStart ==
    /\ save_pc = "cleanup"
    /\ Writing(_save_threads) = {}
    /\ IF save_arg.join_thread
       THEN /\ _save_threads' = <<>>
            /\ save_pc' = "sync_write"
            /\ UNCHANGED save_arg
       ELSE /\ _save_threads' = <<[iteration |-> save_arg.iteration,
                                   state |-> "writing"]>>
            /\ save_pc' = "idle"
            /\ save_arg' = NoArg
    /\ UNCHANGED <<splat_alive, ply_files, exports_started>>
    /\ UNCHANGED non_export_vars

\* The synchronous export writes its file in the caller.
SaveSyncWrite ==
    /\ save_pc = "sync_write"
    /\ ply_files' = ply_files \cup {save_arg.iteration}
    /\ save_pc' = "idle"
    /\ save_arg' = NoArg
    /\ UNCHANGED <<_save_threads, splat_alive, exports_started>>
    /\ UNCHANGED non_export_vars

\* An export thread writes its file and returns.
ExportThreadRun ==
    \E i \in Writing(_save_threads) :
        /\ ply_files' = ply_files \cup {_save_threads[i].iteration}
        /\ _save_threads' = [_save_threads EXCEPT ![i].state = "finished"]
        /\ UNCHANGED <<splat_alive, save_pc, save_arg, exports_started>>
        /\ UNCHANGED non_export_vars

\* ~SplatData(): every recorded export thread is joined.
DestroySplatData ==
    /\ splat_alive
    /\ save_pc = "idle"
    /\ Writing(_save_threads) = {}
    /\ _save_threads' = <<>>
    /\ splat_alive' = FALSE
    /\ UNCHANGED <<save_pc, save_arg, ply_files, exports_started>>
    /\ UNCHANGED non_export_vars

\* ------------------------------------------------------------------------
\* Camera
\* ------------------------------------------------------------------------
Workers == {1, 2}

\* Sizes load_image can return for the image of a camera of 4 x 4 pixels: the
\* file as stored, or resized to the requested resolution.
ImageSizes == {<<4, 4>>, <<2, 2>>, <<4, 2>>}

\* Camera::Camera(R, T, focal_x, focal_y, center_x, center_y, ..., camera_width,
\* camera_height, uid): the image size starts as the camera size.
Camera(focal_x, focal_y, center_x, center_y, camera_width, camera_height, uid) ==
    [_uid |-> uid, _focal_x |-> focal_x, _focal_y |-> focal_y,
     _center_x |-> center_x, _center_y |-> center_y,
     _camera_width |-> camera_width, _camera_height |-> camera_height,
     _image_width |-> camera_width, _image_height |-> camera_height]

\* Camera::K(): focal lengths and principal point scaled by image size over
\* camera size (the values used here divide exactly).
K(cam) ==
    [fx |-> (cam._focal_x * cam._image_width) \div cam._camera_width,
     fy |-> (cam._focal_y * cam._image_height) \div cam._camera_height,
     cx |-> (cam._center_x * cam._image_width) \div cam._camera_width,
     cy |-> (cam._center_y * cam._image_height) \div cam._camera_height]

WorkerIdle == [pc |-> "idle", w |-> 0, h |-> 0]

\* The camera while no data loader is at work.
CameraIdle ==
    /\ camera = Camera(8, 8, 4, 4, 4, 4, 0)
    /\ worker = [k \in Workers |-> WorkerIdle]

CameraInit ==
    /\ \E focal_x \in {4, 8}, focal_y \in {4, 8}, uid \in {0, 1} :
          camera = Camera(focal_x, focal_y, 4, 4, 4, 4, uid)
    /\ worker = [k \in Workers |-> WorkerIdle]

\* load_and_get_image: load_image(_image_path, resolution) returns w and h.
LoadImage(k) ==
    /\ worker[k].pc = "idle"
    /\ \E wh \in ImageSizes :
          worker' = [worker EXCEPT ![k] = [pc |-> "loaded", w |-> wh[1], h |-> wh[2]]]
    /\ UNCHANGED camera
    /\ UNCHANGED non_camera_vars

\* _image_width = w
WriteWidth(k) ==
    /\ worker[k].pc = "loaded"
    /\ camera' = [camera EXCEPT !._image_width = worker[k].w]
    /\ worker' = [worker EXCEPT ![k].pc = "width_set"]
    /\ UNCHANGED non_camera_vars

\* _image_height = h; the tensor is built and returned.
WriteHeight(k) ==
    /\ worker[k].pc = "width_set"
    /\ camera' = [camera EXCEPT !._image_height = worker[k].h]
    /\ worker' = [worker EXCEPT ![k] = [pc |-> "idle", w |-> worker[k].w,
                                        h |-> worker[k].h]]
    /\ UNCHANGED non_camera_vars

\* ------------------------------------------------------------------------
\* COLMAP binary files (loader/formats/colmap.cpp)
\* ------------------------------------------------------------------------

\* camera_model_ids: COLMAP model id -> (CAMERA_MODEL, number of parameters)
camera_model_ids ==
    [id \in 0..11 |->
        CASE id = 0 -> [model |-> "SIMPLE_PINHOLE", params |-> 3]
          [] id = 1 -> [model |-> "PINHOLE", params |-> 4]
          [] id = 2 -> [model |-> "SIMPLE_RADIAL", params |-> 4]
          [] id = 3 -> [model |-> "RADIAL", params |-> 5]
          [] id = 4 -> [model |-> "OPENCV", params |-> 8]
          [] id = 5 -> [model |-> "OPENCV_FISHEYE", params |-> 8]
          [] id = 6 -> [model |-> "FULL_OPENCV", params |-> 12]
          [] id = 7 -> [model |-> "FOV", params |-> 5]
          [] id = 8 -> [model |-> "SIMPLE_RADIAL_FISHEYE", params |-> 4]
          [] id = 9 -> [model |-> "RADIAL_FISHEYE", params |-> 5]
          [] id = 10 -> [model |-> "THIN_PRISM_FISHEYE", params |-> 12]
          [] id = 11 -> [model |-> "UNDEFINED", params |-> 0 - 1]]

\* A file on disk: absent, or its bytes.
File(bytes) == [present |-> TRUE, bytes |-> bytes]
NoFile == [present |-> FALSE, bytes |-> <<>>]

\* Little-endian encoding of v in k bytes, and k zero bytes (doubles and
\* other values the reader copies or skips without looking at them).
RECURSIVE LEByte(_, _)
LEByte(v, j) == IF j = 1 THEN v % 256 ELSE LEByte(v \div 256, j - 1)
LE(v, k) == [j \in 1..k |-> LEByte(v, j)]
Zeros(k) == [j \in 1..k |-> 0]

\* What memcpy finds at or beyond the end of the buffer.
GarbageWord == {1, 7}
GarbageCount == {0, 2}

\* memcpy(&v, p, k) at offset cur: the little-endian value of the k bytes.
RECURSIVE ULE(_, _, _)
ULE(buf, cur, k) ==
    IF k = 0 THEN 0 ELSE buf[cur + 1] + 256 * ULE(buf, cur + 1, k - 1)

\* Whether the k bytes at offset cur lie inside the buffer.
InBuffer(buf, cur, k) == cur + k <= Len(buf)

\* read_u64 / read_u32 / read_i32: no bounds check; the value read, or
\* whatever lies behind the buffer.
read_u64(buf, cur) ==
    IF InBuffer(buf, cur, 8) THEN {ULE(buf, cur, 8)} ELSE GarbageCount
read_u32(buf, cur) ==
    IF InBuffer(buf, cur, 4) THEN {ULE(buf, cur, 4)} ELSE GarbageWord
read_i32(buf, cur) ==
    IF InBuffer(buf, cur, 4) THEN {ULE(buf, cur, 4)} ELSE GarbageWord

ReaderIdle ==
    [status |-> "idle", kind |-> "none", buf |-> <<>>, cur |-> 0, n |-> 0,
     i |-> 0, oob |-> FALSE, cams |-> <<>>, images |-> <<>>]

\* The reader function has been called on a file.
ReaderCall(kind) == [ReaderIdle EXCEPT !.status = "call", !.kind = kind]

FileOf(kind) ==
    CASE kind = "cameras" -> fs.cameras_bin
      [] kind = "images" -> fs.images_bin
      [] kind = "points3D" -> fs.points3D_bin

\* read_binary: the whole file into a vector, or "Failed to open".
read_binary ==
    /\ rd.status = "call"
    /\ IF FileOf(rd.kind).present
          THEN rd' = [rd EXCEPT !.status = "header", !.buf = FileOf(rd.kind).bytes,
                                !.cur = 0]
          ELSE rd' = [rd EXCEPT !.status = "thrown"]
    /\ UNCHANGED <<fs, ds>>
    /\ UNCHANGED non_loader_vars

\* n = read_u64(cur) at the start of each reader; reserve(n).
ReadCount ==
    /\ rd.status = "header"
    /\ \/ /\ ~InBuffer(rd.buf, rd.cur, 8)
          /\ rd' = [rd EXCEPT !.status = "crashed", !.oob = TRUE]
       \/ \E n \in read_u64(rd.buf, rd.cur) :
             rd' = [rd EXCEPT !.status = "records", !.n = n, !.i = 0,
                              !.cur = rd.cur + 8,
                              !.oob = ~InBuffer(rd.buf, rd.cur, 8)]
    /\ UNCHANGED <<fs, ds>>
    /\ UNCHANGED non_loader_vars

\* cams.emplace(id, cam): a camera id already present keeps its first entry.
emplace(cams, cam) ==
    IF \E j \in 1..Len(cams) : cams[j]._camera_ID = cam._camera_ID
    THEN cams ELSE Append(cams, cam)

\* One iteration of the loop of read_cameras_binary. Width, height and the
\* parameters are read (the cursor passes over them) but their values are
\* not kept here.
ReadCameraRecord ==
    /\ rd.status = "records" /\ rd.kind = "cameras" /\ rd.i < rd.n
    /\ \/ /\ ~InBuffer(rd.buf, rd.cur, 24)
          /\ rd' = [rd EXCEPT !.status = "crashed", !.oob = TRUE]
       \/ \E id \in read_u32(rd.buf, rd.cur), model_id \in read_i32(rd.buf, rd.cur + 4) :
             IF model_id \notin DOMAIN camera_model_ids
                   \/ camera_model_ids[model_id].params < 0
             THEN rd' = [rd EXCEPT !.status = "thrown", !.cur = rd.cur + 24,
                                   !.oob = rd.oob \/ ~InBuffer(rd.buf, rd.cur, 24)]
             ELSE LET param_cnt == camera_model_ids[model_id].params
                      next == rd.cur + 24 + 8 * param_cnt
                      cam == [_camera_ID |-> id,
                              _camera_model |-> camera_model_ids[model_id].model]
                  IN \/ /\ next > Len(rd.buf)
                        /\ rd' = [rd EXCEPT !.status = "crashed", !.oob = TRUE]
                     \/ rd' = [rd EXCEPT !.cur = next, !.i = rd.i + 1,
                                         !.oob = rd.oob \/ next > Len(rd.buf),
                                         !.cams = emplace(rd.cams, cam)]
    /\ UNCHANGED <<fs, ds>>
    /\ UNCHANGED non_loader_vars

\* Offsets (1-based positions) of the NUL bytes at or after offset s.
Nuls(buf, s) == {z \in (s + 1)..Len(buf) : buf[z] = 0}

SetMin(S) == CHOOSE x \in S : \A y \in S : x <= y

\* One iteration of the loop of read_images_binary: id, qvec, tvec,
\* camera id, the NUL-terminated name, then the 2-D points skipped.
ReadImageRecord ==
    /\ rd.status = "records" /\ rd.kind = "images" /\ rd.i < rd.n
    /\ LET s == rd.cur + 64
           terminated == Nuls(rd.buf, s) # {}
       IN
       \/ /\ ~InBuffer(rd.buf, rd.cur, 64) \/ ~terminated
          /\ rd' = [rd EXCEPT !.status = "crashed", !.oob = TRUE]
       \/ \E id \in read_u32(rd.buf, rd.cur), camera_id \in read_u32(rd.buf, rd.cur + 60),
             extra \in GarbageCount :
             LET inside == IF s <= Len(rd.buf) THEN Len(rd.buf) - s ELSE 0
                 name_len == IF terminated THEN SetMin(Nuls(rd.buf, s)) - 1 - s
                             ELSE inside + extra
                 name == IF terminated THEN SubSeq(rd.buf, s + 1, s + name_len)
                         ELSE SubSeq(rd.buf, s + 1, s + inside)
                 after == s + name_len + 1
             IN \/ /\ ~InBuffer(rd.buf, after, 8)
                   /\ rd' = [rd EXCEPT !.status = "crashed", !.oob = TRUE]
                \/ \E npts \in read_u64(rd.buf, after) :
                      rd' = [rd EXCEPT
                               !.cur = after + 8 + npts * 24,
                               !.i = rd.i + 1,
                               !.oob = \/ rd.oob
                                       \/ ~InBuffer(rd.buf, rd.cur, 64)
                                       \/ ~terminated
                                       \/ ~InBuffer(rd.buf, after, 8),
                               !.images = Append(rd.images,
                                    [_image_ID |-> id, _camera_id |-> camera_id,
                                     _name |-> name])]
    /\ UNCHANGED <<fs, ds>>
    /\ UNCHANGED non_loader_vars

\* One iteration of the loop of read_point3D_binary: point id skipped,
\* position, colour, error skipped, track length read and track skipped.
ReadPointRecord ==
    /\ rd.status = "records" /\ rd.kind = "points3D" /\ rd.i < rd.n
    /\ \/ /\ ~InBuffer(rd.buf, rd.cur, 51)
          /\ rd' = [rd EXCEPT !.status = "crashed", !.oob = TRUE]
       \/ \E track \in read_u64(rd.buf, rd.cur + 43) :
             rd' = [rd EXCEPT !.cur = rd.cur + 51 + track * 8,
                              !.i = rd.i + 1,
                              !.oob = rd.oob \/ ~InBuffer(rd.buf, rd.cur, 51)]
    /\ UNCHANGED <<fs, ds>>
    /\ UNCHANGED non_loader_vars

\* After the loop: "trailing bytes" unless the cursor is exactly at the end.
ReaderFinish ==
    /\ rd.status = "records" /\ rd.i >= rd.n
    /\ rd' = [rd EXCEPT !.status = IF rd.cur # Len(rd.buf) THEN "thrown"
                                   ELSE "returned"]
    /\ UNCHANGED <<fs, ds>>
    /\ UNCHANGED non_loader_vars

\* ------------------------------------------------------------------------
\* Dataset creation (core/dataset.hpp, colmap.cpp, transforms_reader.cpp)
\* ------------------------------------------------------------------------

\* A thrown std::exception, or the value returned.
Throw(what) == [thrown |-> TRUE, what |-> what, out |-> <<>>]
Return(out) == [thrown |-> FALSE, what |-> "", out |-> out]

\* The switch of read_colmap_cameras: the gsplat camera model type set for a
\* COLMAP model, or the exception thrown.
CameraModelType(model) ==
    CASE model \in {"SIMPLE_PINHOLE", "PINHOLE", "SIMPLE_RADIAL", "RADIAL",
                    "OPENCV", "FULL_OPENCV"} -> Return("PINHOLE")
      [] model \in {"OPENCV_FISHEYE", "RADIAL_FISHEYE", "SIMPLE_RADIAL_FISHEYE"}
            -> Return("FISHEYE")
      [] model = "THIN_PRISM_FISHEYE"
            -> Throw("THIN_PRISM_FISHEYE camera model is not supported")
      [] model = "FOV" -> Throw("FOV camera model is not supported.")
      [] OTHER -> Throw("Unsupported camera model")

\* The body of the loop of read_colmap_cameras for one image.
AssembleCamera(cams, img) ==
    LET found == {j \in 1..Len(cams) : cams[j]._camera_ID = img._camera_id}
    IN IF found = {} THEN Throw("Camera ID not found")
       ELSE LET cam == cams[CHOOSE j \in found : TRUE]
                type == CameraModelType(cam._camera_model)
            IN IF type.thrown THEN type
               ELSE Return([_camera_ID |-> cam._camera_ID,
                            _camera_model |-> cam._camera_model,
                            _camera_model_type |-> type.out,
                            _image_name |-> img._name,
                            _focal_x |-> "params",
                            _focal_y |-> "params"])

\* read_colmap_cameras(base, cams, images, images_folder): one CameraData
\* per image, in the order of the images; the first failure throws.
AssembleCameras(cams, images, folder_exists) ==
    LET one == [i \in 1..Len(images) |-> AssembleCamera(cams, images[i])]
        failed == {i \in 1..Len(images) : one[i].thrown}
    IN IF ~folder_exists THEN Throw("Images folder does not exist")
       ELSE IF failed # {} THEN one[SetMin(failed)]
       ELSE Return([i \in 1..Len(images) |-> one[i].out])

\* transforms.json as far as the reader looks at it.
NoJson ==
    [found |-> FALSE, parses |-> FALSE, has_wh |-> FALSE, image_loads |-> FALSE,
     square |-> FALSE, fl_x |-> "none", fl_y |-> "none", distortion |-> FALSE,
     frames |-> <<>>]

\* read_transforms_cameras_and_images(transPath)
ReadTransforms(json) ==
    LET focal_x == IF json.fl_x = "none" THEN "default" ELSE json.fl_x
        focal_y == IF json.fl_y = "none" THEN focal_x ELSE json.fl_y
        bad == {i \in 1..Len(json.frames) : json.frames[i] # "ok"}
    IN IF ~json.found
          THEN Throw("could not find transforms_train.json nor transforms.json")
       ELSE IF ~json.parses THEN Throw("parse error")
       ELSE IF ~json.has_wh /\ (json.frames = <<>> \/ ~json.image_loads)
          THEN Throw("Error while trying to read image dimensions")
       ELSE IF json.fl_y = "none" /\ ~json.square
          THEN Throw("no camera_angle_y expected w!=h")
       ELSE IF json.distortion THEN Throw("GS don't support distortion for now")
       ELSE IF bad # {}
          THEN IF json.frames[SetMin(bad)] = "no_transform_matrix"
               THEN Throw("expected all frames to contain transform_matrix")
               ELSE Throw("transform_matrix has the wrong dimensions")
       ELSE Return([i \in 1..Len(json.frames) |->
                       [_camera_ID |-> i - 1,
                        _camera_model |-> "UNDEFINED",
                        _camera_model_type |-> "PINHOLE",
                        _image_name |-> <<96 + i>>,
                        _focal_x |-> focal_x,
                        _focal_y |-> focal_y]])

NoResult == [kind |-> "none", what |-> "", cameras |-> <<>>]
Unexpected(what) == [kind |-> "error", what |-> what, cameras |-> <<>>]
Crashed == [kind |-> "crashed", what |-> "", cameras |-> <<>>]

DatasetIdle ==
    [pc |-> "idle", cams |-> <<>>, images |-> <<>>, infos |-> <<>>,
     result |-> NoResult]

\* create_dataset_from_* has been called.
DatasetCall == [DatasetIdle EXCEPT !.pc = "start"]

\* Nothing on disk and no loader at work.
NoDisk ==
    [format |-> "colmap", data_path_exists |-> FALSE, cameras_bin |-> NoFile,
     images_bin |-> NoFile, points3D_bin |-> NoFile,
     images_folder_exists |-> FALSE, transforms |-> NoJson, test_every |-> 8]

LoaderIdle ==
    /\ fs = NoDisk
    /\ rd = ReaderIdle
    /\ ds = DatasetIdle

\* if (!std::filesystem::exists(datasetConfig.data_path)) return unexpected
CheckDataPath ==
    /\ ds.pc = "start"
    /\ IF fs.data_path_exists
          THEN ds' = [ds EXCEPT !.pc = "read"]
          ELSE ds' = [ds EXCEPT !.pc = "done",
                                !.result = Unexpected("Data path does not exist")]
    /\ UNCHANGED <<fs, rd>>
    /\ UNCHANGED non_loader_vars

\* read_colmap_cameras_and_images: get_sparse_file_path for cameras.bin and
\* images.bin (throws when not found), then read_cameras_binary is called.
get_sparse_file_path ==
    /\ ds.pc = "read" /\ fs.format = "colmap"
    /\ IF fs.cameras_bin.present /\ fs.images_bin.present
          THEN /\ ds' = [ds EXCEPT !.pc = "cameras"]
               /\ rd' = ReaderCall("cameras")
          ELSE /\ ds' = [ds EXCEPT !.pc = "done",
                           !.result = Unexpected("Failed to create dataset from COLMAP")]
               /\ rd' = rd
    /\ UNCHANGED fs
    /\ UNCHANGED non_loader_vars

\* read_cameras_binary has returned or thrown; read_images_binary is called.
ReturnCameras ==
    /\ ds.pc = "cameras" /\ rd.status \in {"returned", "thrown"}
    /\ IF rd.status = "returned"
          THEN /\ ds' = [ds EXCEPT !.pc = "images", !.cams = rd.cams]
               /\ rd' = ReaderCall("images")
          ELSE /\ ds' = [ds EXCEPT !.pc = "done",
                           !.result = Unexpected("Failed to create dataset from COLMAP")]
               /\ rd' = rd
    /\ UNCHANGED fs
    /\ UNCHANGED non_loader_vars

\* read_images_binary has returned or thrown.
ReturnImages ==
    /\ ds.pc = "images" /\ rd.status \in {"returned", "thrown"}
    /\ IF rd.status = "returned"
          THEN ds' = [ds EXCEPT !.pc = "assemble", !.images = rd.images]
          ELSE ds' = [ds EXCEPT !.pc = "done",
                        !.result = Unexpected("Failed to create dataset from COLMAP")]
    /\ UNCHANGED <<fs, rd>>
    /\ UNCHANGED non_loader_vars

\* A reader that ran off its buffer took the process down.
ReaderCrashed ==
    /\ ds.pc \in {"cameras", "images"} /\ rd.status = "crashed"
    /\ ds' = [ds EXCEPT !.pc = "done", !.result = Crashed]
    /\ UNCHANGED <<fs, rd>>
    /\ UNCHANGED non_loader_vars

\* read_colmap_cameras with the FOV case falling through.
read_colmap_cameras_FOVAccepted ==
    /\ ds.pc = "assemble"
    /\ LET one == [i \in 1..Len(ds.images) |->
                     LET r == AssembleCamera(ds.cams, ds.images[i])
                     IN IF r.thrown /\ r.what = "FOV camera model is not supported."
                        THEN Return([_camera_ID |-> ds.images[i]._camera_id,
                                     _camera_model |-> "FOV",
                                     _camera_model_type |-> "UNSET",
                                     _image_name |-> ds.images[i]._name,
                                     _focal_x |-> "params",
                                     _focal_y |-> "params"])
                        ELSE r]
           failed == {i \in 1..Len(ds.images) : one[i].thrown}
       IN IF fs.images_folder_exists /\ failed = {}
          THEN ds' = [ds EXCEPT !.pc = "build",
                                !.infos = [i \in 1..Len(ds.images) |-> one[i].out]]
          ELSE ds' = [ds EXCEPT !.pc = "done",
                        !.result = Unexpected("Failed to create dataset from COLMAP")]
    /\ UNCHANGED <<fs, rd>>
    /\ UNCHANGED non_loader_vars

\* read_colmap_cameras(base, cams, images, images_folder)
read_colmap_cameras ==
    /\ ds.pc = "assemble"
    /\ LET r == AssembleCameras(ds.cams, ds.images, fs.images_folder_exists)
       IN IF r.thrown
          THEN ds' = [ds EXCEPT !.pc = "done",
                        !.result = Unexpected("Failed to create dataset from COLMAP")]
          ELSE ds' = [ds EXCEPT !.pc = "build", !.infos = r.out]
    /\ UNCHANGED <<fs, rd>>
    /\ UNCHANGED non_loader_vars

\* create_dataset_from_transforms: read_transforms_cameras_and_images
read_transforms_cameras_and_images ==
    /\ ds.pc = "read" /\ fs.format = "transforms"
    /\ LET r == ReadTransforms(fs.transforms)
       IN IF r.thrown
          THEN ds' = [ds EXCEPT !.pc = "done",
                        !.result = Unexpected("Failed to create dataset from COLMAP")]
          ELSE ds' = [ds EXCEPT !.pc = "build", !.infos = r.out]
    /\ UNCHANGED <<fs, rd>>
    /\ UNCHANGED non_loader_vars

\* The loop over camera_infos: make_shared<Camera>(..., static_cast<int>(i)).
MakeCameras(infos) ==
    [i \in 1..Len(infos) |->
        [_uid |-> i - 1,
         _camera_model_type |-> infos[i]._camera_model_type,
         _image_name |-> infos[i]._image_name]]

\* The cameras are built, then CameraDataset(cameras, config, Split::ALL)
\* evaluates i % test_every for every camera.
MakeDataset ==
    /\ ds.pc = "build"
    /\ IF ds.infos # <<>> /\ fs.test_every = 0
          THEN ds' = [ds EXCEPT !.pc = "done", !.result = Crashed]
          ELSE ds' = [ds EXCEPT !.pc = "done",
                        !.result = [kind |-> "ok", what |-> "",
                                    cameras |-> MakeCameras(ds.infos)]]
    /\ UNCHANGED <<fs, rd>>
    /\ UNCHANGED non_loader_vars

\* ------------------------------------------------------------------------
\* Optimization parameters (parameters.cpp)
\* ------------------------------------------------------------------------

\* verify_optimization_parameters::expected_params
expected_params ==
    {"iterations", "means_lr", "shs_lr", "opacity_lr", "scaling_lr",
     "rotation_lr", "lambda_dssim", "min_opacity", "growth_interval",
     "reset_opacity", "start_densify", "stop_densify", "grad_threshold",
     "opacity_reg", "scale_reg", "sh_degree", "max_cap"}

\* The keys read_optim_params_from_json converts unconditionally.
RequiredKeys ==
    {"iterations", "means_lr", "shs_lr", "opacity_lr", "scaling_lr",
     "rotation_lr", "lambda_dssim", "min_opacity", "growth_interval",
     "reset_opacity", "start_densify", "stop_densify", "grad_threshold"}

\* The keys it reads when json.contains(key).
OptionalKeys == {"opacity_reg", "scale_reg", "max_cap", "eval_steps", "save_steps"}

\* The members of OptimizationParameters, and the keys a file may carry.
ParamFields == expected_params \cup {"eval_steps", "save_steps"}
JsonKeys == ParamFields \cup {"render_mode"}

\* OptimizationParameters defaults; a file carries the default or another value.
DefaultValue == 0
FileValue == 1

OptimizationParameters == [k \in ParamFields |-> DefaultValue]

NoConfig == [exists |-> FALSE, parses |-> FALSE, json |-> <<>>]

OptimIdle ==
    [pc |-> "idle", json |-> <<>>, all_match |-> FALSE,
     params |-> OptimizationParameters]

ParamIdle ==
    /\ config_file = NoConfig
    /\ optim = OptimIdle

\* read_json_file(get_config_path("optimization_params.json"))
read_json_file ==
    /\ optim.pc = "call"
    /\ IF config_file.exists /\ config_file.parses
          THEN optim' = [optim EXCEPT !.pc = "parsed", !.json = config_file.json]
          ELSE optim' = [optim EXCEPT !.pc = "thrown"]
    /\ UNCHANGED config_file
    /\ UNCHANGED non_param_vars

\* verify_optimization_parameters(defaults, json): reports missing,
\* mismatched and unknown keys; the result is not used by the caller.
verify_optimization_parameters ==
    /\ optim.pc = "parsed"
    /\ LET missing_in_json == expected_params \ DOMAIN optim.json
           mismatched_values ==
               {k \in expected_params \cap DOMAIN optim.json :
                   optim.json[k] # OptimizationParameters[k]}
       IN optim' = [optim EXCEPT !.pc = "verified",
                       !.all_match = (missing_in_json = {} /\ mismatched_values = {})]
    /\ UNCHANGED config_file
    /\ UNCHANGED non_param_vars

\* The assignments of read_optim_params_from_json: the required keys are
\* converted (a missing one throws), the optional ones read when present.
ReadParams ==
    /\ optim.pc = "verified"
    /\ IF RequiredKeys \subseteq DOMAIN optim.json
          THEN optim' = [optim EXCEPT !.pc = "returned",
                  !.params = [k \in ParamFields |->
                                 IF k \in RequiredKeys
                                       \/ (k \in OptionalKeys /\ k \in DOMAIN optim.json)
                                 THEN optim.json[k] ELSE OptimizationParameters[k]]]
          ELSE optim' = [optim EXCEPT !.pc = "thrown"]
    /\ UNCHANGED config_file
    /\ UNCHANGED non_param_vars

\* ------------------------------------------------------------------------
\* Fast rasterizer (fast_rasterizer.cpp)
\* ------------------------------------------------------------------------

\* Opacities and transmittance are in percent, colours in 0..100; one pixel
\* that every Gaussian covers, the Gaussians sorted front to back.
Opacities == {0, 50, 100}
Colours == {0, 100}

\* FastGSRasterize::apply(means, ..., densification_info, settings): front to
\* back compositing of the Gaussians over black; returns the image, the
\* accumulated alpha and the densification info it was handed (an empty
\* tensor accumulates nothing).
RECURSIVE Composite(_, _, _)
Composite(gaussians, transmittance, image) ==
    IF gaussians = <<>>
    THEN [image |-> image, alpha |-> 100 - transmittance]
    ELSE LET g == Head(gaussians)
             weight == (g.opacity * transmittance) \div 100
         IN Composite(Tail(gaussians), transmittance - weight,
                      image + (g.colour * weight) \div 100)

FastGSRasterize(gaussians, densification_info) ==
    [image |-> Composite(gaussians, 100, 0).image,
     alpha |-> Composite(gaussians, 100, 0).alpha,
     densification_info |-> densification_info]

RasterIdle ==
    /\ gaussian_model = [gaussians |-> <<>>, _densification_info |-> <<>>]
    /\ bg_color = 0
    /\ render_outputs = <<>>

\* The viewer or trainer picks the background for the next call.
SetBackground(colour) ==
    /\ bg_color # colour
    /\ bg_color' = colour
    /\ UNCHANGED <<gaussian_model, render_outputs>>
    /\ UNCHANGED non_raster_vars

\* fast_rasterize with the background blended in and alpha set to one
\* everywhere.
fast_rasterize_Composited ==
    /\ Len(render_outputs) < MaxRenders
    /\ LET densification_info == <<>>
           raster_outputs == FastGSRasterize(gaussian_model.gaussians, densification_info)
       IN render_outputs' = Append(render_outputs,
             [bg_color |-> bg_color,
              image |-> raster_outputs.image
                           + ((100 - raster_outputs.alpha) * bg_color) \div 100,
              alpha |-> 100])
    /\ UNCHANGED <<gaussian_model, bg_color>>
    /\ UNCHANGED non_raster_vars

\* fast_rasterize(viewpoint_camera, gaussian_model, bg_color): a local empty
\* densification_info is handed to the rasterizer; image and alpha are its
\* first two outputs; bg_color is not used.
fast_rasterize ==
    /\ Len(render_outputs) < MaxRenders
    /\ LET densification_info == <<>>
           raster_outputs == FastGSRasterize(gaussian_model.gaussians, densification_info)
       IN render_outputs' = Append(render_outputs,
             [bg_color |-> bg_color,
              image |-> raster_outputs.image,
              alpha |-> raster_outputs.alpha])
    /\ UNCHANGED <<gaussian_model, bg_color>>
    /\ UNCHANGED non_raster_vars

\* ------------------------------------------------------------------------
\* Data loader (core/dataset.hpp, torch::data)
\* ------------------------------------------------------------------------
LoaderWorkers == 1..MaxWorkers

DataLoaderIdle ==
    /\ data_loader = [pc |-> "none", dataset_size |-> 0, sampler_size |-> 0,
                      batch_size |-> 0, workers |-> 0, enforce_ordering |-> FALSE]
    /\ sampler = <<>>
    /\ job_queue = <<>>
    /\ worker_job = [w \in LoaderWorkers |-> 0 - 1]
    /\ result_queue = <<>>
    /\ yielded = <<>>
    /\ epochs_done = 0

\* A data loader whose sampler covers one index less than the dataset has.
create_dataloader_from_dataset_ShortSampler(dataset_size, num_workers) ==
    /\ data_loader.pc = "none"
    /\ data_loader' = [pc |-> "idle", dataset_size |-> dataset_size,
                       sampler_size |-> IF dataset_size > 0 THEN dataset_size - 1 ELSE 0,
                       batch_size |-> 1, workers |-> num_workers,
                       enforce_ordering |-> FALSE]
    /\ UNCHANGED <<sampler, job_queue, worker_job, result_queue, yielded, epochs_done>>
    /\ UNCHANGED non_dl_vars

\* create_dataloader_from_dataset(dataset, num_workers): RandomSampler over
\* dataset->size(), batch size 1, ordering not enforced.
create_dataloader_from_dataset(dataset_size, num_workers) ==
    /\ data_loader.pc = "none"
    /\ data_loader' = [pc |-> "idle", dataset_size |-> dataset_size,
                       sampler_size |-> dataset_size,
                       batch_size |-> 1, workers |-> num_workers,
                       enforce_ordering |-> FALSE]
    /\ UNCHANGED <<sampler, job_queue, worker_job, result_queue, yielded, epochs_done>>
    /\ UNCHANGED non_dl_vars

\* The orders in which 0 .. n-1 can come out of randperm(n).
randperm(n) ==
    {p \in [1..n -> 0..(n - 1)] : \A i, j \in 1..n : i # j => p[i] # p[j]}

InFlight ==
    Len(job_queue) + Cardinality({w \in LoaderWorkers : worker_job[w] >= 0})
        + Len(result_queue)

\* DataLoader::begin(): the sampler is reset (a fresh permutation).
BeginEpoch ==
    /\ data_loader.pc = "idle" /\ epochs_done < MaxEpochs
    /\ \E p \in randperm(data_loader.sampler_size) : sampler' = p
    /\ yielded' = <<>>
    /\ data_loader' = [data_loader EXCEPT !.pc = "running"]
    /\ UNCHANGED <<job_queue, worker_job, result_queue, epochs_done>>
    /\ UNCHANGED non_dl_vars

\* prefetch: the next batch request (one index) is pushed to the workers,
\* at most 2 * workers requests being outstanding.
Prefetch ==
    /\ data_loader.pc = "running" /\ data_loader.workers > 0
    /\ sampler # <<>>
    /\ InFlight < 2 * data_loader.workers
    /\ job_queue' = Append(job_queue, Head(sampler))
    /\ sampler' = Tail(sampler)
    /\ UNCHANGED <<data_loader, worker_job, result_queue, yielded, epochs_done>>
    /\ UNCHANGED non_dl_vars

\* A worker thread pops a job.
WorkerTake(w) ==
    /\ w <= data_loader.workers
    /\ worker_job[w] < 0 /\ job_queue # <<>>
    /\ worker_job' = [worker_job EXCEPT ![w] = Head(job_queue)]
    /\ job_queue' = Tail(job_queue)
    /\ UNCHANGED <<data_loader, sampler, result_queue, yielded, epochs_done>>
    /\ UNCHANGED non_dl_vars

\* The worker calls CameraDataset::get(index) and pushes the example.
WorkerLoad(w) ==
    /\ worker_job[w] >= 0
    /\ result_queue' = Append(result_queue, worker_job[w])
    /\ worker_job' = [worker_job EXCEPT ![w] = 0 - 1]
    /\ UNCHANGED <<data_loader, sampler, job_queue, yielded, epochs_done>>
    /\ UNCHANGED non_dl_vars

\* Iterator increment with workers: the next finished example, in the
\* order of completion.
NextBatch ==
    /\ data_loader.pc = "running" /\ result_queue # <<>>
    /\ yielded' = Append(yielded, Head(result_queue))
    /\ result_queue' = Tail(result_queue)
    /\ UNCHANGED <<data_loader, sampler, job_queue, worker_job, epochs_done>>
    /\ UNCHANGED non_dl_vars

\* Iterator increment without workers: the main thread loads the example.
NextBatchInline ==
    /\ data_loader.pc = "running" /\ data_loader.workers = 0
    /\ sampler # <<>>
    /\ yielded' = Append(yielded, Head(sampler))
    /\ sampler' = Tail(sampler)
    /\ UNCHANGED <<data_loader, job_queue, worker_job, result_queue, epochs_done>>
    /\ UNCHANGED non_dl_vars

\* The iterator reaches end(): the sampler is exhausted and nothing is
\* outstanding.
EndEpoch ==
    /\ data_loader.pc = "running"
    /\ sampler = <<>> /\ InFlight = 0
    /\ data_loader' = [data_loader EXCEPT !.pc = "idle"]
    /\ epochs_done' = epochs_done + 1
    /\ UNCHANGED <<sampler, job_queue, worker_job, result_queue, yielded>>
    /\ UNCHANGED non_dl_vars

\* ------------------------------------------------------------------------
\* Tile intersection and sorting (spec 4.2): one key per camera, Gaussian
\* and overlapped tile, sorted by (camera, tile, depth), then per-tile
\* offsets into the sorted list.  tests/test_garden_data.cpp compares the
\* result with a reference implementation.
\* ------------------------------------------------------------------------

tile_size == 16

width == 40

\* The image is one tile high.
height == tile_size

tile_width == (width + tile_size - 1) \div tile_size

tile_height == (height + tile_size - 1) \div tile_size

n_tiles == tile_width * tile_height

Depths == {0, 1}

\* A run projects onto one camera or onto two.
CameraCounts == {1, 2}

\* A projected Gaussian of one camera: culled (radius 0), or a footprint of
\* radius 12 that covers two of the three tiles: a far one on the left, a
\* near one and a far one on the right.
Splat2D ==
    {[mean |-> <<8, 8>>, radius |-> <<0, 0>>, depth |-> 0],
     [mean |-> <<8, 8>>, radius |-> <<12, 12>>, depth |-> 1],
     [mean |-> <<32, 8>>, radius |-> <<12, 12>>, depth |-> 0],
     [mean |-> <<32, 8>>, radius |-> <<12, 12>>, depth |-> 1]}

NoTiles == [tiles_per_gauss |-> << >>, isect_ids |-> << >>, flatten_ids |-> << >>]

TileIdle ==
    isect = [pc |-> "idle", C |-> 0, N |-> 0, splats |-> << >>,
             out |-> NoTiles, isect_offsets |-> << >>, ref |-> NoTiles]

Clamp(v, lo, hi) == IF v < lo THEN lo ELSE IF v > hi THEN hi ELSE v

Floor(a, b) == a \div b

Ceil(a, b) == 0 - ((0 - a) \div b)

\* The tiles the footprint of a Gaussian overlaps: none when its radius is
\* zero, else the rectangle of tiles around its mean, clipped to the image.
TilesOf(s) ==
    IF s.radius[1] <= 0 \/ s.radius[2] <= 0 THEN {}
    ELSE LET x_min == Clamp(Floor(s.mean[1] - s.radius[1], tile_size), 0, tile_width)
             x_max == Clamp(Ceil(s.mean[1] + s.radius[1], tile_size), 0, tile_width)
             y_min == Clamp(Floor(s.mean[2] - s.radius[2], tile_size), 0, tile_height)
             y_max == Clamp(Ceil(s.mean[2] + s.radius[2], tile_size), 0, tile_height)
         IN  {ty * tile_width + tx : tx \in x_min..(x_max - 1), ty \in y_min..(y_max - 1)}

\* The composite sort key: camera, then tile, then depth.
IsectId(cid, tid, depth) == (cid * n_tiles + tid) * Cardinality(Depths) + depth

TileKey(id) == id \div Cardinality(Depths)

\* One (key, flattened Gaussian index) pair per camera, Gaussian and tile.
Emitted(C, N, splats) ==
    {[id |-> IsectId(c, t, splats[c][g].depth), flat |-> c * N + g] :
        <<c, g, t>> \in {x \in (0..(C - 1)) \X (0..(N - 1)) \X (0..(n_tiles - 1)) :
                            x[3] \in TilesOf(splats[x[1]][x[2]])}}

TilesPerGauss(C, N, splats) ==
    [c \in 0..(C - 1) |-> [g \in 0..(N - 1) |-> Cardinality(TilesOf(splats[c][g]))]]

\* Every order a sort by key can leave the pairs in: pairs of equal key in
\* any order.
RECURSIVE SortedOrders(_)
SortedOrders(S) ==
    IF S = {} THEN {<< >>}
    ELSE UNION {{<<e>> \o rest : rest \in SortedOrders(S \ {e})} :
                   e \in {m \in S : \A o \in S : m.id <= o.id}}

\* The order of a stable sort of the pairs emitted camera by camera,
\* Gaussian by Gaussian: pairs of equal key in flattened-index order.
RECURSIVE StableOrder(_)
StableOrder(S) ==
    IF S = {} THEN << >>
    ELSE LET e == CHOOSE m \in S : \A o \in S :
                      m.id < o.id \/ (m.id = o.id /\ m.flat <= o.flat)
         IN  <<e>> \o StableOrder(S \ {e})

Ids(order) == [i \in 1..Len(order) |-> order[i].id]

Flats(order) == [i \in 1..Len(order) |-> order[i].flat]

\* The sort key leaves the depth out: within a tile the order is arbitrary.
intersect_tile_TileKeyOnly ==
    /\ isect.pc = "reference"
    /\ \E order \in SortedOrders({[id |-> TileKey(e.id) * Cardinality(Depths), flat |-> e.flat] :
                                     e \in Emitted(isect.C, isect.N, isect.splats)}) :
          isect' = [isect EXCEPT !.pc = "intersected",
                       !.out = [tiles_per_gauss |-> TilesPerGauss(isect.C, isect.N, isect.splats),
                                isect_ids |-> Ids(order), flatten_ids |-> Flats(order)]]
    /\ UNCHANGED non_tile_vars

\* gsplat::intersect_tile(..., sort = true).
intersect_tile ==
    /\ isect.pc = "reference"
    /\ \E order \in SortedOrders(Emitted(isect.C, isect.N, isect.splats)) :
          isect' = [isect EXCEPT !.pc = "intersected",
                       !.out = [tiles_per_gauss |-> TilesPerGauss(isect.C, isect.N, isect.splats),
                                isect_ids |-> Ids(order), flatten_ids |-> Flats(order)]]
    /\ UNCHANGED non_tile_vars

\* gsplat::intersect_offset: for every camera and tile, the position in the
\* sorted list of the first pair of that tile or of a later one.
intersect_offset ==
    /\ isect.pc = "intersected"
    /\ isect' = [isect EXCEPT !.pc = "offsets",
                    !.isect_offsets =
                        [k \in 0..(isect.C * n_tiles - 1) |->
                            Cardinality({i \in 1..Len(isect.out.isect_ids) :
                                            TileKey(isect.out.isect_ids[i]) < k})]]
    /\ UNCHANGED non_tile_vars

\* reference::isect_tiles(..., sort = true).
isect_tiles ==
    /\ isect.pc = "input"
    /\ LET order == StableOrder(Emitted(isect.C, isect.N, isect.splats))
       IN  isect' = [isect EXCEPT !.pc = "reference",
                        !.ref = [tiles_per_gauss |-> TilesPerGauss(isect.C, isect.N, isect.splats),
                                 isect_ids |-> Ids(order), flatten_ids |-> Flats(order)]]
    /\ UNCHANGED non_tile_vars

TileInit ==
    \E C \in CameraCounts, N \in 1..MaxN :
        \E splats \in [0..(C - 1) -> [0..(N - 1) -> Splat2D]] :
            isect = [pc |-> "input", C |-> C, N |-> N, splats |-> splats,
                     out |-> NoTiles, isect_offsets |-> << >>, ref |-> NoTiles]

\* ------------------------------------------------------------------------
\* CameraDataset (core/dataset.hpp): the TRAIN, VAL and ALL splits
\* ------------------------------------------------------------------------

Splits == {"TRAIN", "VAL", "ALL"}

\* uids of the cameras handed to a CameraDataset.
CameraUids == 10..(9 + MaxSplitCams)

\* Camera vectors of up to max_cams distinct cameras.
CameraVectors(max_cams) ==
    {v \in UNION {[1..n -> CameraUids] : n \in 0..max_cams} :
        \A i, j \in 1..Len(v) : v[i] = v[j] => i = j}

NoDataset == [built |-> FALSE, _indices |-> <<>>]

NoGetCall == [called |-> FALSE, split |-> "ALL", index |-> 0, thrown |-> "", camera |-> 0]

SplitIdle ==
    /\ split_input = [_cameras |-> <<>>, test_every |-> 1]
    /\ datasets = [s \in Splits |-> NoDataset]
    /\ get_call = NoGetCall

\* The loop of the constructor from position i on: _indices.push_back(i)
\* for the positions the split takes; one_based shifts the test position.
RECURSIVE SplitIndices(_, _, _, _, _)
SplitIndices(i, n, test_every, _split, one_based) ==
    IF i >= n THEN <<>>
    ELSE LET is_test == ((IF one_based THEN i + 1 ELSE i) % test_every) = 0
             rest == SplitIndices(i + 1, n, test_every, _split, one_based)
         IN IF \/ _split = "ALL"
               \/ (_split = "TRAIN" /\ ~is_test)
               \/ (_split = "VAL" /\ is_test)
            THEN <<i>> \o rest
            ELSE rest

\* A constructor that takes every test_every-th camera counting from one.
CameraDataset_OneBased(_split) ==
    /\ ~datasets[_split].built
    /\ datasets' = [datasets EXCEPT ![_split] =
                      [built |-> TRUE,
                       _indices |-> SplitIndices(0, Len(split_input._cameras),
                                                 split_input.test_every, _split, TRUE)]]
    /\ UNCHANGED <<split_input, get_call>>
    /\ UNCHANGED non_split_vars

\* CameraDataset(cameras, params, split)
CameraDataset(_split) ==
    /\ ~datasets[_split].built
    /\ datasets' = [datasets EXCEPT ![_split] =
                      [built |-> TRUE,
                       _indices |-> SplitIndices(0, Len(split_input._cameras),
                                                 split_input.test_every, _split, FALSE)]]
    /\ UNCHANGED <<split_input, get_call>>
    /\ UNCHANGED non_split_vars

\* CameraDataset::get(index) on the dataset of one split; the camera of the
\* example is _cameras[_indices[index]], cached image or not.
get(_split, index) ==
    /\ datasets[_split].built
    /\ get_call' =
          IF index >= Len(datasets[_split]._indices)
          THEN [called |-> TRUE, split |-> _split, index |-> index,
                thrown |-> "out_of_range", camera |-> 0]
          ELSE LET camera_idx == datasets[_split]._indices[index + 1]
               IN [called |-> TRUE, split |-> _split, index |-> index, thrown |-> "",
                   camera |-> split_input._cameras[camera_idx + 1]]
    /\ UNCHANGED <<split_input, datasets>>
    /\ UNCHANGED non_split_vars

SplitInit ==
    /\ \E cameras \in CameraVectors(MaxSplitCams), test_every \in 1..MaxTestEvery :
          split_input = [_cameras |-> cameras, test_every |-> test_every]
    /\ datasets = [s \in Splits |-> NoDataset]
    /\ get_call = NoGetCall

\* ------------------------------------------------------------------------
\* Project (project/project.cpp): the project data and the project file
\* ------------------------------------------------------------------------

\* Version as <<major, minor, patch>>.
CURRENT_VERSION == <<0, 0, 1>>

FILE_HEADER == "LichtFeldStudio Project File"

EXTENSION == ".ls"

\* Version strings found in project files; "abc" makes std::stoi throw.
VersionStrings == {"0.0.0", "0.0.1", "0.0.2", "abc"}

\* Version::Version(versionStr)
VersionOf(versionStr) ==
    CASE versionStr = "0.0.0" -> <<0, 0, 0>>
      [] versionStr = "0.0.1" -> <<0, 0, 1>>
      [] versionStr = "0.0.2" -> <<0, 0, 2>>

\* Version::toString()
toString(version) ==
    CASE version = <<0, 0, 0>> -> "0.0.0"
      [] version = <<0, 0, 1>> -> "0.0.1"
      [] version = <<0, 0, 2>> -> "0.0.2"

\* Version::operator>= and operator<
VersionGeq(a, b) ==
    IF a[1] # b[1] THEN a[1] > b[1]
    ELSE IF a[2] # b[2] THEN a[2] > b[2]
    ELSE a[3] >= b[3]

VersionLess(a, b) == ~VersionGeq(a, b)

\* Optimization parameters of a project: the defaults, or another iteration
\* count.
ProjectOptimizations ==
    {OptimizationParameters, [OptimizationParameters EXCEPT !["iterations"] = FileValue]}

\* OptimizationParameters::to_json() and from_json(json): one JSON key per
\* parameter.
to_json(optimization) == [k \in ParamFields |-> optimization[k]]

from_json(json) == [k \in ParamFields |-> json[k]]

PlyDatas ==
    {[is_imported |-> FALSE, ply_path |-> "out/splat_7000.ply",
      ply_training_iter_number |-> 7000, ply_name |-> "splat_7000"],
     [is_imported |-> TRUE, ply_path |-> "in/scan.ply",
      ply_training_iter_number |-> 0, ply_name |-> "scan"]}

DataSetInfos ==
    {[data_path |-> "data/garden", images |-> "images", resize_factor |-> 1,
      test_every |-> 8, data_type |-> "Colmap", output_path |-> out] :
        out \in {"out1", "out2"}}

NoDataSetInfo ==
    [data_path |-> "", images |-> "images", resize_factor |-> 0 - 1,
     test_every |-> 8, data_type |-> "", output_path |-> ""]

\* A JSON object is a function from its keys; these are the objects without
\* keys and the operations of nlohmann::json used by the project code.
EmptyObject == [k \in {} |-> ""]

contains(json, key) == key \in DOMAIN json

erase(json, key) == [k \in (DOMAIN json) \ {key} |-> json[k]]

update(json, other) ==
    [k \in (DOMAIN json) \cup (DOMAIN other) |->
        IF k \in DOMAIN other THEN other[k] ELSE json[k]]

\* The ProjectData of Project(update_file_on_change), created at time "t0".
NewProjectData ==
    [version |-> CURRENT_VERSION, project_name |-> "", project_creation_time |-> "t0",
     project_last_update_time |-> "", data_set_info |-> NoDataSetInfo,
     optimization |-> OptimizationParameters, outputs |-> [plys |-> <<>>],
     additional_fields |-> EmptyObject]

\* generateCurrentTimeStamp(): the clock reads "t1" after construction.
generateCurrentTimeStamp == "t1"

\* --- JSON documents of project files ---------------------------------------

\* A PlyData written as a JSON object, and read back from one.
PlyJson(ply) ==
    [is_imported |-> ply.is_imported, ply_path |-> ply.ply_path,
     ply_training_iter_number |-> ply.ply_training_iter_number, ply_name |-> ply.ply_name]

PlyDataOf(plyJson) ==
    [is_imported |-> plyJson["is_imported"], ply_path |-> plyJson["ply_path"],
     ply_training_iter_number |-> plyJson["ply_training_iter_number"],
     ply_name |-> plyJson["ply_name"]]

\* Project::serializeProjectData(data)
serializeProjectData(data) ==
    LET json == [project_info |-> FILE_HEADER,
                 version |-> toString(data.version),
                 project_name |-> data.project_name,
                 project_creation_time |-> data.project_creation_time,
                 project_last_update_time |-> data.project_last_update_time,
                 project_output_folder |-> data.data_set_info.output_path,
                 data |-> [data_path |-> data.data_set_info.data_path,
                           data_type |-> data.data_set_info.data_type,
                           resize_factor |-> data.data_set_info.resize_factor,
                           test_every |-> data.data_set_info.test_every,
                           images |-> data.data_set_info.images],
                 training |-> [optimization |-> to_json(data.optimization)],
                 outputs |-> [plys |-> [i \in 1..Len(data.outputs.plys) |->
                                           PlyJson(data.outputs.plys[i])]]]
    IN IF DOMAIN data.additional_fields # {}
       THEN update(json, data.additional_fields)
       ELSE json

\* Project::validateJsonStructure(json)
validateJsonStructure(json) ==
    LET contains_basics ==
            /\ contains(json, "project_info") /\ contains(json, "version")
            /\ contains(json, "project_name") /\ contains(json, "project_creation_time")
            /\ contains(json, "project_last_update_time")
            /\ contains(json, "project_output_folder")
            /\ contains(json, "data") /\ contains(json, "outputs")
    IN IF ~contains_basics THEN FALSE
       ELSE /\ contains(json["data"], "data_path") /\ contains(json["data"], "images")
            /\ contains(json["data"], "resize_factor") /\ contains(json["data"], "test_every")
            /\ contains(json["data"], "data_type")

\* The keys parseProjectData reads with get<T>(); a key in `mistyped` holds a
\* value of another JSON type, and get<T>() throws.
ParsedKeys ==
    {"version", "project_name", "project_creation_time", "project_last_update_time",
     "project_output_folder", "data_path", "images", "resize_factor", "test_every",
     "data_type"}

\* Project::parseProjectData(json) when no get<T>() throws.
parseProjectData(json) ==
    LET dataJson == json["data"]
        outputsJson == json["outputs"]
        erased == {"project_info", "version", "project_name", "project_creation_time",
                   "project_last_update_time", "data", "outputs"}
    IN [version |-> VersionOf(json["version"]),
        project_name |-> json["project_name"],
        project_creation_time |-> json["project_creation_time"],
        project_last_update_time |-> json["project_last_update_time"],
        data_set_info |-> [data_path |-> dataJson["data_path"],
                           images |-> dataJson["images"],
                           resize_factor |-> dataJson["resize_factor"],
                           test_every |-> dataJson["test_every"],
                           data_type |-> dataJson["data_type"],
                           output_path |-> json["project_output_folder"]],
        optimization |-> IF contains(json, "training") /\ contains(json["training"], "optimization")
                         THEN from_json(json["training"]["optimization"])
                         ELSE OptimizationParameters,
        outputs |-> [plys |-> IF contains(outputsJson, "plys")
                              THEN [i \in 1..Len(outputsJson["plys"]) |->
                                       PlyDataOf(outputsJson["plys"][i])]
                              ELSE <<>>],
        additional_fields |-> [k \in (DOMAIN json) \ erased |-> json[k]]]

\* A file on disk: it may be missing, hold text that is not JSON, or a JSON
\* object some of whose values have an unexpected type.
ProjectFile(fields, mistyped) ==
    [present |-> TRUE, malformed |-> FALSE, fields |-> fields, mistyped |-> mistyped]

NoProjectFile == [present |-> FALSE, malformed |-> FALSE, fields |-> EmptyObject, mistyped |-> {}]

\* The project a file on disk was written from.
SavedProjectData ==
    [NewProjectData EXCEPT !.project_name = "garden",
                           !.project_last_update_time = "t0",
                           !.data_set_info = CHOOSE d \in DataSetInfos : d.output_path = "out1",
                           !.optimization = [OptimizationParameters EXCEPT !["iterations"] = FileValue],
                           !.outputs = [plys |-> <<CHOOSE ply \in PlyDatas : ply.is_imported>>]]

\* Project files found on disk: none, text that is not JSON, a file written
\* by serializeProjectData, and such a file with one thing changed.
ProjectFiles ==
    LET saved == serializeProjectData(SavedProjectData)
    IN {NoProjectFile, [NoProjectFile EXCEPT !.present = TRUE, !.malformed = TRUE],
        ProjectFile(saved, {})}
       \cup {ProjectFile(erase(saved, key), {}) : key \in {"project_info", "outputs", "training"}}
       \cup {ProjectFile([saved EXCEPT !["data"] = [images |-> "images"]], {})}
       \cup {ProjectFile([saved EXCEPT !["outputs"] = [note |-> "none"]], {})}
       \cup {ProjectFile([saved EXCEPT !["version"] = v], {}) : v \in VersionStrings}
       \cup {ProjectFile(saved, {key}) : key \in {"version", "project_name", "test_every"}}
       \cup {ProjectFile(update(saved, [plugin |-> "state"]), {})}

\* --- Project operations ----------------------------------------------------

\* Paths given to the project: the project file, a path under a directory
\* that does not exist, the output directory, a file with another extension.
ProjectPaths == {"out/project.ls", "missing/project.ls", "out", "out/notes.txt"}

is_directory(path) == path = "out"

parent_is_directory(path) == path \in {"out/project.ls", "out/notes.txt"}

extension(path) == IF path \in {"out/project.ls", "missing/project.ls"} THEN ".ls" ELSE ""

\* Migrators: each migrates files of one version to the current one, and
\* its migrate() either rewrites the version or throws.
Migrators == [from : {<<0, 0, 0>>}, throws : BOOLEAN]

NoReadCall == [called |-> FALSE, returned |-> FALSE, reason |-> ""]

ProjectIdle ==
    /\ project_data_ = NewProjectData
    /\ output_file_name_ = ""
    /\ update_file_on_change_ = FALSE
    /\ migrators_ = <<>>
    /\ project_file = NoProjectFile
    /\ read_call = NoReadCall
    /\ project_ops = 0

\* One more operation is called on the project.
ProjectOp ==
    /\ project_ops < MaxProjectOps
    /\ project_ops' = project_ops + 1
    /\ UNCHANGED non_project_vars

\* MigratorRegistry::registerMigrator(migrator)
registerMigrator(migrator) ==
    /\ ProjectOp
    /\ Len(migrators_) < MaxMigrators
    /\ migrators_' = Append(migrators_, migrator)
    /\ UNCHANGED <<project_data_, output_file_name_, update_file_on_change_, project_file, read_call>>

\* MigratorRegistry::migrateToVersion(data, from, to): the migrated JSON, or
\* the exception thrown.
migrateToVersion(data, from, to) ==
    IF ~VersionLess(from, to) THEN [thrown |-> FALSE, json |-> data]
    ELSE LET able == {k \in 1..Len(migrators_) : migrators_[k].from = from}
         IN IF able = {}
            THEN [thrown |-> TRUE, json |-> data]
            ELSE LET migrator == migrators_[CHOOSE k \in able : \A j \in able : k <= j]
                 IN IF migrator.throws
                    THEN [thrown |-> TRUE, json |-> data]
                    ELSE [thrown |-> FALSE, json |-> [data EXCEPT !["version"] = toString(to)]]

\* How readFromFile(filepath) ends, and the document it parses when it
\* gets that far.
ReadOutcome(filepath) ==
    LET doc == project_file.fields
        failed(reason) == [returned |-> FALSE, reason |-> reason, json |-> EmptyObject]
    IN IF filepath # "out/project.ls" \/ ~project_file.present THEN failed("cannot open")
       ELSE IF project_file.malformed THEN failed("not json")
       ELSE IF ~validateJsonStructure(doc) THEN failed("invalid structure")
       ELSE IF "version" \in project_file.mistyped \/ doc["version"] = "abc"
       THEN failed("version throws")
       ELSE LET fileVersion == VersionOf(doc["version"])
                migrated == migrateToVersion(doc, fileVersion, CURRENT_VERSION)
            IN IF migrated.thrown THEN failed("no migration")
               ELSE IF project_file.mistyped \cap ParsedKeys # {} THEN failed("parse throws")
               ELSE [returned |-> TRUE, reason |-> "", json |-> migrated.json]

\* A readFromFile that parses into project_data_ field by field.
readFromFile_ParseInPlace(filepath) ==
    /\ ProjectOp
    /\ LET outcome == ReadOutcome(filepath)
       IN /\ read_call' = [called |-> TRUE, returned |-> outcome.returned, reason |-> outcome.reason]
          /\ project_data_' =
                IF outcome.returned THEN parseProjectData(outcome.json)
                ELSE IF outcome.reason = "parse throws" /\ "project_name" \notin project_file.mistyped
                THEN [project_data_ EXCEPT !.project_name = project_file.fields["project_name"]]
                ELSE project_data_
    /\ UNCHANGED <<output_file_name_, update_file_on_change_, migrators_, project_file>>

\* Project::readFromFile(filepath)
readFromFile(filepath) ==
    /\ ProjectOp
    /\ LET outcome == ReadOutcome(filepath)
       IN /\ read_call' = [called |-> TRUE, returned |-> outcome.returned, reason |-> outcome.reason]
          /\ project_data_' = IF outcome.returned THEN parseProjectData(outcome.json)
                              ELSE project_data_
    /\ UNCHANGED <<output_file_name_, update_file_on_change_, migrators_, project_file>>

\* The body of writeToFile(filepath) on project data `data`; opens is
\* whether the file can be opened for writing.
WriteBody(data, filepath, opens) ==
    LET targetPath == IF filepath = "" THEN output_file_name_ ELSE filepath
        refused == \/ targetPath = ""
                   \/ is_directory(targetPath)
                   \/ ~parent_is_directory(targetPath)
                   \/ extension(targetPath) # EXTENSION
        stamped == [data EXCEPT !.project_last_update_time = generateCurrentTimeStamp]
    IN IF refused
       THEN /\ project_data_' = data
            /\ UNCHANGED project_file
       ELSE /\ project_data_' = stamped
            /\ IF opens
               THEN project_file' = ProjectFile(serializeProjectData(stamped), {})
               ELSE UNCHANGED project_file

\* The end of the modifying operations: the file is rewritten when
\* update_file_on_change_ is set and a file name is known.
WriteOnChange(data, opens) ==
    IF update_file_on_change_ /\ output_file_name_ # ""
    THEN WriteBody(data, "", opens)
    ELSE project_data_' = data /\ UNCHANGED project_file

\* Project::writeToFile(filepath)
writeToFile(filepath, opens) ==
    /\ ProjectOp
    /\ WriteBody(project_data_, filepath, opens)
    /\ UNCHANGED <<output_file_name_, update_file_on_change_, migrators_, read_call>>

\* Project::setProjectFileName(path): it throws for an existing file with
\* another extension and stores the path otherwise.
setProjectFileName(path) ==
    /\ ProjectOp
    /\ output_file_name_' = IF path = "out/notes.txt" THEN output_file_name_ ELSE path
    /\ UNCHANGED <<project_data_, update_file_on_change_, migrators_, project_file, read_call>>

\* Project::setProjectName(name)
setProjectName(name) ==
    /\ ProjectOp
    /\ project_data_' = [project_data_ EXCEPT !.project_name = name]
    /\ UNCHANGED <<output_file_name_, update_file_on_change_, migrators_, project_file, read_call>>

\* Project::setProjectOutputFolder(path); writes is whether the setter ends
\* like addPly, by rewriting the file on change.
setProjectOutputFolder(path, writes, opens) ==
    /\ ProjectOp
    /\ LET data == [project_data_ EXCEPT !.data_set_info.output_path = path]
       IN IF writes THEN WriteOnChange(data, opens)
          ELSE project_data_' = data /\ UNCHANGED project_file
    /\ UNCHANGED <<output_file_name_, update_file_on_change_, migrators_, read_call>>

\* Project::setOptimizationParams(opt), with writes as above.
setOptimizationParams(opt, writes, opens) ==
    /\ ProjectOp
    /\ LET data == [project_data_ EXCEPT !.optimization = opt]
       IN IF writes THEN WriteOnChange(data, opens)
          ELSE project_data_' = data /\ UNCHANGED project_file
    /\ UNCHANGED <<output_file_name_, update_file_on_change_, migrators_, read_call>>

\* Project::addPly(ply)
addPly(ply, opens) ==
    /\ ProjectOp
    /\ Len(project_data_.outputs.plys) < MaxPlys
    /\ WriteOnChange([project_data_ EXCEPT !.outputs.plys = Append(@, ply)], opens)
    /\ UNCHANGED <<output_file_name_, update_file_on_change_, migrators_, read_call>>

\* Project::removePly(index)
removePly(index, opens) ==
    /\ ProjectOp
    /\ WriteOnChange([project_data_ EXCEPT !.outputs.plys =
                         IF index < Len(@) THEN RemoveAt(@, index + 1) ELSE @], opens)
    /\ UNCHANGED <<output_file_name_, update_file_on_change_, migrators_, read_call>>

\* A Project(update_file_on_change) next to whatever file is on disk.
ProjectInit ==
    /\ project_data_ = NewProjectData
    /\ output_file_name_ = ""
    /\ update_file_on_change_ \in BOOLEAN
    /\ migrators_ = <<>>
    /\ project_file \in ProjectFiles
    /\ read_call = NoReadCall
    /\ project_ops = 0

\* ------------------------------------------------------------------------
\* GSViewer and the training thread
\* ------------------------------------------------------------------------
InfoZero == [curr_iterations_ |-> 0, total_iterations_ |-> 0, num_splats_ |-> 0]

ViewerInit ==
    /\ trainer_ = FALSE
    /\ training_thread_ = "null"
    /\ live_threads = 0
    /\ stop_requested = FALSE
    /\ trainer_stop = FALSE
    /\ ready = FALSE
    /\ is_running_ = FALSE
    /\ tpc = "none"
    /\ iter = 0
    /\ render_mutex = [writer |-> FALSE, readers |-> 0]
    /\ mpc = "idle"
    /\ caller = "none"
    /\ scene_model = "none"
    /\ current_mode_ = "Empty"
    /\ current_ply_path_ = ""
    /\ current_dataset_path_ = ""
    /\ info_ = InfoZero
    /\ df_locked = FALSE
    /\ threads_started = 0

\* std::jthread::joinable(): a thread object made from a callable is joinable
\* until it has been joined.
joinable(t) == t = "joinable"

\* --- Trainer::train(stop_token), running on the training thread ----------

\* train() entry: the trainer marks itself running.
TrainBegin ==
    /\ tpc = "started"
    /\ is_running_' = TRUE
    /\ tpc' = "loop_top"
    /\ UNCHANGED <<trainer_, training_thread_, live_threads, stop_requested,
                   trainer_stop, ready, iter, render_mutex, mpc, caller,
                   scene_model, current_mode_, current_ply_path_,
                   current_dataset_path_, info_, df_locked,
                   threads_started>>
    /\ UNCHANGED non_viewer_vars

\* Top of an iteration: the cooperative stop check, then forward/backward.
TrainCheckStop ==
    /\ tpc = "loop_top"
    /\ tpc' = IF stop_requested \/ trainer_stop \/ iter >= MaxIter
              THEN "finishing" ELSE "want_lock"
    /\ UNCHANGED <<trainer_, training_thread_, live_threads, stop_requested,
                   trainer_stop, ready, is_running_, iter, render_mutex, mpc,
                   caller, scene_model, current_mode_, current_ply_path_,
                   current_dataset_path_, info_, df_locked,
                   threads_started>>
    /\ UNCHANGED non_viewer_vars

\* std::unique_lock<std::shared_mutex> on the render mutex.
TrainAcquire ==
    /\ tpc = "want_lock"
    /\ ~render_mutex.writer
    /\ render_mutex.readers = 0
    /\ render_mutex' = [render_mutex EXCEPT !.writer = TRUE]
    /\ tpc' = "writing"
    /\ UNCHANGED <<trainer_, training_thread_, live_threads, stop_requested,
                   trainer_stop, ready, is_running_, iter, mpc, caller,
                   scene_model, current_mode_, current_ply_path_,
                   current_dataset_path_, info_, df_locked,
                   threads_started>>
    /\ UNCHANGED non_viewer_vars

\* Optimizer step + density control under the exclusive lock, the progress
\* report to the viewer, and the release of the lock.
TrainWrite ==
    /\ tpc = "writing"
    /\ iter' = iter + 1
    /\ info_' = [curr_iterations_ |-> iter + 1, total_iterations_ |-> MaxIter,
                 num_splats_ |-> 1]
    /\ render_mutex' = [render_mutex EXCEPT !.writer = FALSE]
    /\ tpc' = "loop_top"
    /\ UNCHANGED <<trainer_, training_thread_, live_threads, stop_requested,
                   trainer_stop, ready, is_running_, mpc, caller, scene_model,
                   current_mode_, current_ply_path_, current_dataset_path_,
                   df_locked,
                   threads_started>>
    /\ UNCHANGED non_viewer_vars

\* train() returns: the loop is left with the lock released.
TrainFinish ==
    /\ tpc = "finishing"
    /\ is_running_' = FALSE
    /\ tpc' = "exited"
    /\ UNCHANGED <<trainer_, training_thread_, live_threads, stop_requested,
                   trainer_stop, ready, iter, render_mutex, mpc, caller,
                   scene_model, current_mode_, current_ply_path_,
                   current_dataset_path_, info_, df_locked,
                   threads_started>>
    /\ UNCHANGED non_viewer_vars

\* --- GSViewer::clearCurrentData ------------------------------------------

\* First block: request_stop() on the thread, then wait in join().
ClearBegin(who) ==
    /\ mpc = "idle"
    /\ caller' = who
    /\ IF training_thread_ # "null" /\ joinable(training_thread_)
       THEN /\ stop_requested' = TRUE
            /\ mpc' = "clr_join"
       ELSE /\ stop_requested' = stop_requested
            /\ mpc' = "clr_rest"
    /\ UNCHANGED <<trainer_, training_thread_, live_threads, trainer_stop,
                   ready, is_running_, tpc, iter, render_mutex, scene_model,
                   current_mode_, current_ply_path_, current_dataset_path_,
                   info_, df_locked,
                   threads_started>>
    /\ UNCHANGED non_viewer_vars

\* A clearCurrentData that drops the thread handle without waiting for it.
ClearJoin_NoWait ==
    /\ mpc = "clr_join"
    /\ training_thread_' = "null"
    /\ mpc' = "clr_rest"
    /\ UNCHANGED <<trainer_, live_threads, tpc, stop_requested, trainer_stop,
                   ready, is_running_, iter, render_mutex, caller, scene_model,
                   current_mode_, current_ply_path_, current_dataset_path_,
                   info_, df_locked, threads_started>>
    /\ UNCHANGED non_viewer_vars

\* join() returns once the thread function has returned; reset().
ClearJoin ==
    /\ mpc = "clr_join"
    /\ tpc = "exited"
    /\ training_thread_' = "null"
    /\ live_threads' = live_threads - 1
    /\ tpc' = "none"
    /\ mpc' = "clr_rest"
    /\ UNCHANGED <<trainer_, stop_requested, trainer_stop, ready, is_running_,
                   iter, render_mutex, caller, scene_model, current_mode_,
                   current_ply_path_, current_dataset_path_, info_, df_locked,
                   threads_started>>
    /\ UNCHANGED non_viewer_vars

\* Remainder of clearCurrentData: trainer stop request, scene and trainer
\* dropped, state and training info reset.
ClearRest ==
    /\ mpc = "clr_rest"
    /\ trainer_stop' = IF trainer_ /\ is_running_ THEN TRUE ELSE trainer_stop
    /\ scene_model' = "none"
    /\ trainer_' = FALSE
    /\ current_mode_' = "Empty"
    /\ current_ply_path_' = ""
    /\ current_dataset_path_' = ""
    /\ info_' = InfoZero
    /\ mpc' = "clr_ret"
    /\ UNCHANGED <<training_thread_, live_threads, stop_requested, ready,
                   is_running_, tpc, iter, render_mutex, caller, df_locked,
                   threads_started>>
    /\ UNCHANGED non_viewer_vars

\* clearCurrentData returns to its caller.
ClearReturn ==
    /\ mpc = "clr_ret"
    /\ mpc' = CASE caller = "loadDataset" -> "ld_setup"
                [] caller = "loadPLYFile" -> "lp_load"
                [] OTHER -> "idle"
    /\ caller' = "none"
    /\ UNCHANGED <<trainer_, training_thread_, live_threads, stop_requested,
                   trainer_stop, ready, is_running_, tpc, iter, render_mutex,
                   scene_model, current_mode_, current_ply_path_,
                   current_dataset_path_, info_, df_locked,
                   threads_started>>
    /\ UNCHANGED non_viewer_vars

clearCurrentData == ClearBegin("clearCurrentData")

\* --- GSViewer::loadDataset / loadPLYFile ---------------------------------

loadDataset == ClearBegin("loadDataset")

\* After clearCurrentData: setupTraining succeeds (a fresh trainer is linked)
\* or fails (error logged, nothing else changes).
LoadDatasetSetup ==
    /\ mpc = "ld_setup"
    /\ \E ok \in BOOLEAN :
         IF ok
         THEN /\ trainer_' = TRUE
              /\ scene_model' = "trainer"
              /\ current_dataset_path_' = "dataset"
              /\ current_mode_' = "Training"
              /\ is_running_' = FALSE
              /\ trainer_stop' = FALSE
              /\ iter' = 0
         ELSE UNCHANGED <<trainer_, scene_model, current_dataset_path_,
                          current_mode_, is_running_, trainer_stop, iter>>
    /\ mpc' = "idle"
    /\ UNCHANGED <<training_thread_, live_threads, stop_requested, ready, tpc,
                   render_mutex, caller, current_ply_path_, info_, df_locked,
                   threads_started>>
    /\ UNCHANGED non_viewer_vars

loadPLYFile == ClearBegin("loadPLYFile")

LoadPLY ==
    /\ mpc = "lp_load"
    /\ \E ok \in BOOLEAN :
         IF ok
         THEN /\ scene_model' = "standalone"
              /\ current_ply_path_' = "ply"
              /\ current_mode_' = "PLYViewer"
         ELSE UNCHANGED <<scene_model, current_ply_path_, current_mode_>>
    /\ mpc' = "idle"
    /\ UNCHANGED <<trainer_, training_thread_, live_threads, stop_requested,
                   trainer_stop, ready, is_running_, tpc, iter, render_mutex,
                   caller, current_dataset_path_, info_, df_locked,
                   threads_started>>
    /\ UNCHANGED non_viewer_vars

\* --- GSViewer::startTraining ---------------------------------------------

\* startTraining that only checks the trainer pointer.
startTraining_NoThreadCheck ==
    /\ mpc = "idle"
    /\ threads_started < MaxThreads
    /\ trainer_
    /\ threads_started' = threads_started + 1
    /\ ready' = TRUE
    /\ training_thread_' = "joinable"
    /\ live_threads' = live_threads + 1
    /\ stop_requested' = FALSE
    /\ tpc' = "started"
    /\ UNCHANGED <<trainer_, trainer_stop, is_running_, iter, render_mutex,
                   mpc, caller, scene_model, current_mode_, current_ply_path_,
                   current_dataset_path_, info_, df_locked>>
    /\ UNCHANGED non_viewer_vars

startTraining ==
    /\ mpc = "idle"
    /\ threads_started < MaxThreads
    /\ ~(~trainer_ \/ training_thread_ # "null")
    /\ threads_started' = threads_started + 1
    /\ ready' = TRUE
    /\ training_thread_' = "joinable"
    /\ live_threads' = live_threads + 1
    /\ stop_requested' = FALSE
    /\ tpc' = "started"
    /\ UNCHANGED <<trainer_, trainer_stop, is_running_, iter, render_mutex,
                   mpc, caller, scene_model, current_mode_, current_ply_path_,
                   current_dataset_path_, info_, df_locked>>
    /\ UNCHANGED non_viewer_vars

\* --- GSViewer::drawFrame -------------------------------------------------

\* Entry: nothing is drawn without a model.
DrawFrameBegin ==
    /\ mpc = "idle"
    /\ scene_model # "none"
    /\ mpc' = "df_check"
    /\ df_locked' = FALSE
    /\ UNCHANGED <<trainer_, training_thread_, live_threads, stop_requested,
                   trainer_stop, ready, is_running_, tpc, iter, render_mutex,
                   caller, scene_model, current_mode_, current_ply_path_,
                   current_dataset_path_, info_,
                   threads_started>>
    /\ UNCHANGED non_viewer_vars

\* if (trainer_ && trainer_->is_running()): the branch is chosen here.
DrawFrameCheck ==
    /\ mpc = "df_check"
    /\ df_locked' = (trainer_ /\ is_running_)
    /\ mpc' = IF trainer_ /\ is_running_ THEN "df_lock" ELSE "df_render"
    /\ UNCHANGED <<trainer_, training_thread_, live_threads, stop_requested,
                   trainer_stop, ready, is_running_, tpc, iter, render_mutex,
                   caller, scene_model, current_mode_, current_ply_path_,
                   current_dataset_path_, info_,
                   threads_started>>
    /\ UNCHANGED non_viewer_vars

\* std::shared_lock<std::shared_mutex> lock(trainer_->getRenderMutex()).
DrawFrameLock ==
    /\ mpc = "df_lock"
    /\ ~render_mutex.writer
    /\ render_mutex' = [render_mutex EXCEPT !.readers = @ + 1]
    /\ mpc' = "df_render"
    /\ UNCHANGED <<trainer_, training_thread_, live_threads, stop_requested,
                   trainer_stop, ready, is_running_, tpc, iter, caller,
                   scene_model, current_mode_, current_ply_path_,
                   current_dataset_path_, info_, df_locked,
                   threads_started>>
    /\ UNCHANGED non_viewer_vars

\* A drawFrame whose lock outlives the render call.
DrawFrameRender_HoldLock ==
    /\ mpc = "df_render"
    /\ \E outcome \in {"valid", "invalid", "throw"} :
         mpc' = IF outcome = "valid" THEN "df_upload" ELSE "idle"
    /\ UNCHANGED <<trainer_, training_thread_, live_threads, stop_requested,
                   trainer_stop, ready, is_running_, tpc, iter, caller,
                   scene_model, current_mode_, current_ply_path_,
                   current_dataset_path_, info_, df_locked, render_mutex,
                   threads_started>>
    /\ UNCHANGED non_viewer_vars

\* scene_->render(request) completes (valid or invalid result) or throws; the
\* shared_lock, when taken, goes out of scope with the if-block.
DrawFrameRender ==
    /\ mpc = "df_render"
    /\ render_mutex' = IF df_locked
                       THEN [render_mutex EXCEPT !.readers = @ - 1]
                       ELSE render_mutex
    /\ \E outcome \in {"valid", "invalid", "throw"} :
         mpc' = IF outcome = "valid" THEN "df_upload" ELSE "idle"
    /\ UNCHANGED <<trainer_, training_thread_, live_threads, stop_requested,
                   trainer_stop, ready, is_running_, tpc, iter, caller,
                   scene_model, current_mode_, current_ply_path_,
                   current_dataset_path_, info_, df_locked,
                   threads_started>>
    /\ UNCHANGED non_viewer_vars

\* uploadToScreen + screen_renderer_->render, then drawFrame returns.
DrawFrameUpload ==
    /\ mpc = "df_upload"
    /\ mpc' = "idle"
    /\ UNCHANGED <<trainer_, training_thread_, live_threads, stop_requested,
                   trainer_stop, ready, is_running_, tpc, iter, render_mutex,
                   caller, scene_model, current_mode_, current_ply_path_,
                   current_dataset_path_, info_, df_locked,
                   threads_started>>
    /\ UNCHANGED non_viewer_vars

\* --- GSViewer::~GSViewer -------------------------------------------------

DtorBegin ==
    /\ mpc = "idle"
    /\ IF training_thread_ # "null" /\ joinable(training_thread_)
       THEN /\ stop_requested' = TRUE
            /\ mpc' = "dt_join"
       ELSE /\ stop_requested' = stop_requested
            /\ mpc' = "dt_rest"
    /\ UNCHANGED <<trainer_, training_thread_, live_threads, trainer_stop,
                   ready, is_running_, tpc, iter, render_mutex, caller,
                   scene_model, current_mode_, current_ply_path_,
                   current_dataset_path_, info_, df_locked,
                   threads_started>>
    /\ UNCHANGED non_viewer_vars

DtorJoin ==
    /\ mpc = "dt_join"
    /\ tpc = "exited"
    /\ training_thread_' = "joined"
    /\ live_threads' = live_threads - 1
    /\ tpc' = "none"
    /\ mpc' = "dt_rest"
    /\ UNCHANGED <<trainer_, stop_requested, trainer_stop, ready, is_running_,
                   iter, render_mutex, caller, scene_model, current_mode_,
                   current_ply_path_, current_dataset_path_, info_, df_locked,
                   threads_started>>
    /\ UNCHANGED non_viewer_vars

\* Trainer stop request, GUI shutdown, then the members (scene, trainer
\* pointer) are destroyed.
DtorRest ==
    /\ mpc = "dt_rest"
    /\ trainer_stop' = IF trainer_ /\ is_running_ THEN TRUE ELSE trainer_stop
    /\ scene_model' = "none"
    /\ trainer_' = FALSE
    /\ mpc' = "destroyed"
    /\ UNCHANGED <<training_thread_, live_threads, stop_requested, ready,
                   is_running_, tpc, iter, render_mutex, caller, current_mode_,
                   current_ply_path_, current_dataset_path_, info_, df_locked,
                   threads_started>>
    /\ UNCHANGED non_viewer_vars

\* ------------------------------------------------------------------------
\* File drop: GSViewer::handleFileDrop (visualizer/viewer.cpp) and
\* ViewerDetail::dropCallback (viewer.cpp)
\* ------------------------------------------------------------------------

\* What a dropped path can be: its extension, whether it is a directory,
\* and the files std::filesystem::exists finds below it.
DroppedPaths ==
    {[name |-> "a.ply", ext |-> ".ply", dir |-> FALSE, files |-> {}],
     [name |-> "b.PLY", ext |-> ".PLY", dir |-> FALSE, files |-> {}],
     [name |-> "scan.ply", ext |-> ".ply", dir |-> TRUE, files |-> {"transforms.json"}],
     [name |-> "c.Ply", ext |-> ".Ply", dir |-> FALSE, files |-> {}],
     [name |-> "images", ext |-> "", dir |-> TRUE, files |-> {"images/0.png"}],
     [name |-> "colmap0", ext |-> "", dir |-> TRUE, files |-> {"sparse/0/cameras.bin"}],
     [name |-> "colmap", ext |-> "", dir |-> TRUE, files |-> {"sparse/cameras.bin"}],
     [name |-> "nerf", ext |-> "", dir |-> TRUE, files |-> {"transforms.json"}],
     [name |-> "blender", ext |-> "", dir |-> TRUE, files |-> {"transforms_train.json"}]}

NoDrop == [handler |-> "none", paths |-> << >>, loads |-> << >>, returned |-> "none"]

DropIdle == drop = NoDrop

is_colmap_dataset(p) ==
    "sparse/0/cameras.bin" \in p.files \/ "sparse/cameras.bin" \in p.files

is_transforms_dataset(p) ==
    "transforms.json" \in p.files \/ "transforms_train.json" \in p.files

\* What the loop body does with one path: "ply", "dataset", or "skip".
DropKind(p) ==
    IF p.ext = ".ply" \/ p.ext = ".PLY" THEN "ply"
    ELSE IF p.dir /\ (is_colmap_dataset(p) \/ is_transforms_dataset(p)) THEN "dataset"
    ELSE "skip"

\* The loop over the dropped paths: it stops at the first path it loads.
RECURSIVE DropLoop(_)
DropLoop(paths) ==
    IF paths = << >> THEN << >>
    ELSE IF DropKind(Head(paths)) # "skip"
         THEN <<[kind |-> DropKind(Head(paths)), path |-> Head(paths).name]>>
         ELSE DropLoop(Tail(paths))

\* A loop that goes on after a load.
RECURSIVE DropLoop_NoReturn(_)
DropLoop_NoReturn(paths) ==
    IF paths = << >> THEN << >>
    ELSE IF DropKind(Head(paths)) # "skip"
         THEN <<[kind |-> DropKind(Head(paths)), path |-> Head(paths).name]>>
                  \o DropLoop_NoReturn(Tail(paths))
         ELSE DropLoop_NoReturn(Tail(paths))

\* The calls of loadPLYFile and loadDataset a drop makes, with no training
\* thread running: clearCurrentData, then load_ply or setupTraining, which
\* succeed or fail.  The last call decides the state.
DropLoads(loads) ==
    IF loads = << >>
    THEN UNCHANGED <<trainer_, trainer_stop, is_running_, iter, scene_model,
                     current_mode_, current_ply_path_, current_dataset_path_, info_>>
    ELSE LET load == loads[Len(loads)] IN
         \E ok \in BOOLEAN :
            /\ info_' = InfoZero
            /\ trainer_' = (ok /\ load.kind = "dataset")
            /\ trainer_stop' = IF ok /\ load.kind = "dataset" THEN FALSE
                               ELSE IF trainer_ /\ is_running_ THEN TRUE ELSE trainer_stop
            /\ is_running_' = IF ok /\ load.kind = "dataset" THEN FALSE ELSE is_running_
            /\ iter' = IF ok /\ load.kind = "dataset" THEN 0 ELSE iter
            /\ scene_model' = IF ~ok THEN "none"
                              ELSE IF load.kind = "ply" THEN "standalone" ELSE "trainer"
            /\ current_mode_' = IF ~ok THEN "Empty"
                                ELSE IF load.kind = "ply" THEN "PLYViewer" ELSE "Training"
            /\ current_ply_path_' = IF ok /\ load.kind = "ply" THEN load.path ELSE ""
            /\ current_dataset_path_' = IF ok /\ load.kind = "dataset" THEN load.path ELSE ""

DropFrame ==
    /\ mpc = "idle" /\ training_thread_ = "null"
    /\ UNCHANGED <<training_thread_, live_threads, stop_requested, ready, tpc,
                   render_mutex, mpc, caller, df_locked, threads_started>>
    /\ UNCHANGED non_viewerdrop_vars

\* The window system delivers a drop event of these paths.
glfwDrop(paths) ==
    /\ DropFrame
    /\ drop.handler # "pending"
    /\ drop' = [handler |-> "pending", paths |-> paths, loads |-> << >>,
                returned |-> "none"]
    /\ UNCHANGED <<trainer_, trainer_stop, is_running_, iter, scene_model,
                   current_mode_, current_ply_path_, current_dataset_path_, info_>>

\* A handleFileDrop that does not return after its first load.
handleFileDrop_NoReturn ==
    /\ DropFrame
    /\ drop.handler = "pending"
    /\ LET loads == DropLoop_NoReturn(drop.paths) IN
          /\ DropLoads(loads)
          /\ drop' = [drop EXCEPT !.handler = "handleFileDrop", !.loads = loads,
                         !.returned = IF loads # << >> THEN "true" ELSE "false"]

\* GSViewer::handleFileDrop(event).
handleFileDrop ==
    /\ DropFrame
    /\ drop.handler = "pending"
    /\ LET loads == DropLoop(drop.paths) IN
          /\ DropLoads(loads)
          /\ drop' = [drop EXCEPT !.handler = "handleFileDrop", !.loads = loads,
                         !.returned = IF loads # << >> THEN "true" ELSE "false"]

\* ViewerDetail::dropCallback(window, count, paths), detail_ being the
\* GSViewer.
dropCallback ==
    /\ DropFrame
    /\ drop.handler = "pending"
    /\ LET loads == DropLoop(drop.paths) IN
          /\ DropLoads(loads)
          /\ drop' = [drop EXCEPT !.handler = "dropCallback", !.loads = loads,
                         !.returned = "void"]

\* The events: up to MaxDropped distinct paths, in any order.
DropEvents(dropped) ==
    {e \in UNION {[1..k -> DroppedPaths] : k \in 0..dropped} :
        \A i, j \in 1..Len(e) : i # j => e[i] # e[j]}

\* ------------------------------------------------------------------------
\* RenderingEngineImpl (rendering/rendering_engine_impl.cpp)
\* ------------------------------------------------------------------------

\* Viewport widths and heights requested: negative, zero, the smallest and
\* the largest accepted, one beyond the largest.
ViewportSizes == {0 - 1, 0, 1, 800, 16384, 16385}

Images == {"image1", "image2"}

DepthMaps == {"depth1", "depth2"}

\* What RenderingPipeline::render can return.
PipelineResults ==
    [ok : {TRUE}, image : Images, depth : DepthMaps, valid : BOOLEAN, error : {""}]
        \cup [ok : {FALSE}, image : {""}, depth : {""}, valid : {FALSE},
              error : {"pipeline failed", "out of memory"}]

NoPipelineResult == [ok |-> FALSE, image |-> "", depth |-> "", valid |-> FALSE, error |-> "not invoked"]

Unexpected_(message) == [ok |-> FALSE, image |-> "", depth |-> "", error |-> message]

NoRenderCall ==
    [called |-> FALSE, initialized |-> FALSE, size |-> <<0, 0>>, invoked |-> FALSE,
     pipeline_result |-> NoPipelineResult, result |-> Unexpected_("")]

\* The member renderers in the order initialize() initialises them, and the
\* shaders after them.
InitSteps == <<"grid_renderer_", "bbox_renderer_", "axes_renderer_", "viewport_gizmo_", "shaders">>

NoInitCall == [called |-> FALSE, already |-> FALSE, ok |-> FALSE, error |-> ""]

NoOpCall == [op |-> "none", initialized |-> FALSE, worked |-> FALSE, ok |-> FALSE, error |-> ""]

EngineIdle ==
    /\ quad_shader_ = FALSE
    /\ screen_renderer_ = FALSE
    /\ render_call = NoRenderCall
    /\ renderers_ = {}
    /\ init_call = NoInitCall
    /\ started = FALSE
    /\ op_call = NoOpCall

isInitialized == quad_shader_ /\ screen_renderer_

\* The error a failing step hands to initialize().
InitError(step) ==
    IF step = "shaders" THEN "Failed to create shaders: load failed" ELSE step \o " failed"

\* initialize() up to the step that fails (6 when none does): the screen
\* renderer is created, the steps before `failing` succeed, and the quad
\* shader is loaded by the last step. reset_on_failure is the shutdown()
\* call of the failure branches. RenderInfiniteGrid::init returns at once
\* when the grid renderer is initialised, so it cannot fail then.
InitializeBody(failing, reset_on_failure) ==
    /\ failing = 1 => InitSteps[1] \notin renderers_
    /\ renderers_' = renderers_ \cup {InitSteps[k] : k \in 1..Min(failing - 1, 4)}
    /\ IF failing > Len(InitSteps)
       THEN /\ quad_shader_' = TRUE
            /\ screen_renderer_' = TRUE
            /\ started' = TRUE
            /\ init_call' = [called |-> TRUE, already |-> FALSE, ok |-> TRUE, error |-> ""]
       ELSE /\ quad_shader_' = FALSE
            /\ screen_renderer_' = ~reset_on_failure
            /\ UNCHANGED started
            /\ init_call' = [called |-> TRUE, already |-> FALSE, ok |-> FALSE,
                             error |-> InitError(InitSteps[failing])]

\* An initialize() that returns the error without calling shutdown().
initialize_NoShutdownOnFailure ==
    /\ IF quad_shader_
       THEN /\ init_call' = [called |-> TRUE, already |-> TRUE, ok |-> TRUE, error |-> ""]
            /\ UNCHANGED <<quad_shader_, screen_renderer_, renderers_, started>>
       ELSE \E failing \in 1..(Len(InitSteps) + 1) : InitializeBody(failing, FALSE)
    /\ UNCHANGED <<render_call, op_call>>
    /\ UNCHANGED non_engine_vars

\* initialize(): nothing to do when the quad shader exists; otherwise the
\* screen renderer is created and the renderers and shaders are initialised
\* in turn, and a failure of any of them ends in shutdown().
initialize ==
    /\ IF quad_shader_
       THEN /\ init_call' = [called |-> TRUE, already |-> TRUE, ok |-> TRUE, error |-> ""]
            /\ UNCHANGED <<quad_shader_, screen_renderer_, renderers_, started>>
       ELSE \E failing \in 1..(Len(InitSteps) + 1) : InitializeBody(failing, TRUE)
    /\ UNCHANGED <<render_call, op_call>>
    /\ UNCHANGED non_engine_vars

\* shutdown(): the quad shader and the screen renderer are reset; the member
\* renderers are left to their destructors.
shutdown ==
    /\ quad_shader_' = FALSE
    /\ screen_renderer_' = FALSE
    /\ started' = FALSE
    /\ UNCHANGED <<render_call, renderers_, init_call, op_call>>
    /\ UNCHANGED non_engine_vars

\* A renderGaussians that accepts any positive size.
renderGaussians_NoUpperLimit(viewport_size) ==
    /\ IF ~isInitialized
       THEN render_call' = [NoRenderCall EXCEPT !.called = TRUE, !.size = viewport_size,
                               !.result = Unexpected_("Rendering engine not initialized")]
       ELSE IF viewport_size[1] <= 0 \/ viewport_size[2] <= 0
       THEN render_call' = [NoRenderCall EXCEPT !.called = TRUE, !.initialized = TRUE,
                               !.size = viewport_size,
                               !.result = Unexpected_("Invalid viewport dimensions")]
       ELSE \E pipeline_result \in PipelineResults :
               render_call' =
                   [called |-> TRUE, initialized |-> TRUE, size |-> viewport_size, invoked |-> TRUE,
                    pipeline_result |-> pipeline_result,
                    result |-> IF ~pipeline_result.ok
                               THEN Unexpected_(pipeline_result.error)
                               ELSE [ok |-> TRUE, image |-> pipeline_result.image,
                                     depth |-> pipeline_result.depth, error |-> ""]]
    /\ UNCHANGED <<quad_shader_, screen_renderer_, renderers_, init_call, started, op_call>>
    /\ UNCHANGED non_engine_vars

\* renderGaussians(splat_data, request) with request.viewport.size = viewport_size.
renderGaussians(viewport_size) ==
    /\ IF ~isInitialized
       THEN render_call' = [NoRenderCall EXCEPT !.called = TRUE, !.size = viewport_size,
                               !.result = Unexpected_("Rendering engine not initialized")]
       ELSE IF viewport_size[1] <= 0 \/ viewport_size[2] <= 0 \/
               viewport_size[1] > 16384 \/ viewport_size[2] > 16384
       THEN render_call' = [NoRenderCall EXCEPT !.called = TRUE, !.initialized = TRUE,
                               !.size = viewport_size,
                               !.result = Unexpected_("Invalid viewport dimensions")]
       ELSE \E pipeline_result \in PipelineResults :
               render_call' =
                   [called |-> TRUE, initialized |-> TRUE, size |-> viewport_size, invoked |-> TRUE,
                    pipeline_result |-> pipeline_result,
                    result |-> IF ~pipeline_result.ok
                               THEN Unexpected_(pipeline_result.error)
                               ELSE [ok |-> TRUE, image |-> pipeline_result.image,
                                     depth |-> pipeline_result.depth, error |-> ""]]
    /\ UNCHANGED <<quad_shader_, screen_renderer_, renderers_, init_call, started, op_call>>
    /\ UNCHANGED non_engine_vars

\* An operation that returns `message` unless the engine (and the member
\* renderer it draws with) is initialised, and otherwise does its rendering
\* work, which succeeds or fails.
GuardedOp(op, usable, message) ==
    /\ IF ~usable
       THEN op_call' = [op |-> op, initialized |-> isInitialized, worked |-> FALSE,
                        ok |-> FALSE, error |-> message]
       ELSE \E ok \in BOOLEAN :
               op_call' = [op |-> op, initialized |-> isInitialized, worked |-> TRUE,
                           ok |-> ok, error |-> IF ok THEN "" ELSE op \o " failed"]
    /\ UNCHANGED <<quad_shader_, screen_renderer_, render_call, renderers_, init_call, started>>
    /\ UNCHANGED non_engine_vars

\* presentToScreen(result, viewport_pos, viewport_size); has_image is
\* result.image being non-null.
presentToScreen(has_image) ==
    IF isInitialized /\ ~has_image
    THEN GuardedOp("presentToScreen", FALSE, "Invalid render result")
    ELSE GuardedOp("presentToScreen", isInitialized, "Rendering engine not initialized")

renderGrid ==
    GuardedOp("renderGrid", isInitialized /\ "grid_renderer_" \in renderers_, "Grid renderer not initialized")

renderBoundingBox ==
    GuardedOp("renderBoundingBox", isInitialized /\ "bbox_renderer_" \in renderers_, "Bounding box renderer not initialized")

renderCoordinateAxes ==
    GuardedOp("renderCoordinateAxes", isInitialized /\ "axes_renderer_" \in renderers_, "Axes renderer not initialized")

renderViewportGizmo ==
    GuardedOp("renderViewportGizmo", isInitialized, "Viewport gizmo not initialized")

\* renderWithPipeline(model, request): pipeline_.render is called and its
\* result converted; ok is the valid flag of the public result.
renderWithPipeline ==
    /\ \E result \in PipelineResults :
          op_call' = [op |-> "renderWithPipeline", initialized |-> isInitialized,
                      worked |-> TRUE, ok |-> result.ok /\ result.valid, error |-> ""]
    /\ UNCHANGED <<quad_shader_, screen_renderer_, render_call, renderers_, init_call, started>>
    /\ UNCHANGED non_engine_vars

createBoundingBox ==
    GuardedOp("createBoundingBox", isInitialized, "RenderingEngine must be initialized before creating bounding boxes")

createCoordinateAxes ==
    GuardedOp("createCoordinateAxes", isInitialized, "RenderingEngine must be initialized before creating coordinate axes")

\* ------------------------------------------------------------------------
\* RenderingManager (visualizer/rendering/rendering_manager.cpp)
\* ------------------------------------------------------------------------

\* Render sizes of a frame: a minimised window and two window sizes.
FrameSizes == {<<0, 0>>, <<800, 600>>, <<1024, 768>>}

\* Model pointers: null and two models.
ModelPtrs == {0, 1, 2}

\* Gaussians in the model: none, or some.
ModelSizes == {0, 3}

NoImage == [image |-> FALSE, size |-> <<0, 0>>, model |-> 0]

NoFrame ==
    [n |-> 0, kind |-> "none", size |-> <<0, 0>>, model |-> 0, needed |-> FALSE,
     presented |-> NoImage, stale |-> FALSE]

ManagerIdle ==
    /\ needs_render_ = TRUE
    /\ cached_result_ = NoImage
    /\ last_render_size_ = <<0, 0>>
    /\ last_model_ptr_ = 0
    /\ cache_stale = FALSE
    /\ frame = NoFrame

\* markDirty(), called by the handlers of every settings and scene change.
markDirty ==
    /\ needs_render_' = TRUE
    /\ cache_stale' = cached_result_.image
    /\ UNCHANGED <<cached_result_, last_render_size_, last_model_ptr_, frame>>
    /\ UNCHANGED non_manager_vars

\* The WindowResized handler: markDirty(), then the cache is cleared.
WindowResized ==
    /\ needs_render_' = TRUE
    /\ cached_result_' = NoImage
    /\ cache_stale' = FALSE
    /\ UNCHANGED <<last_render_size_, last_model_ptr_, frame>>
    /\ UNCHANGED non_manager_vars

\* renderFrame (with doFullRender) through one body; keep_on_switch is the
\* renderFrame that leaves the cache alone when the model pointer changes.
RenderFrameBody(current_size, model, gaussians, has_focus, training_due, render_ok, keep_on_switch) ==
    IF current_size[1] <= 0 \/ current_size[2] <= 0
    THEN /\ frame' = [NoFrame EXCEPT !.n = 1 - frame.n, !.kind = "skipped",
                         !.size = current_size, !.model = model,
                         !.needed = needs_render_]
         /\ UNCHANGED <<needs_render_, cached_result_, last_render_size_,
                        last_model_ptr_, cache_stale>>
    ELSE LET size_changed == current_size # last_render_size_
             model_changed == model # last_model_ptr_
             cleared == size_changed \/ (model_changed /\ ~keep_on_switch)
             needs == needs_render_ \/ size_changed \/ model_changed
             cache == IF cleared THEN NoImage ELSE cached_result_
             should_render == ~cache.image \/ needs \/ has_focus \/ training_due
             full == should_render \/ model = 0
             rendered == full /\ model # 0 /\ gaussians > 0 /\ render_ok
             fresh == [image |-> TRUE, size |-> current_size, model |-> model]
         IN  /\ last_render_size_' = current_size
             /\ last_model_ptr_' = model
             /\ needs_render_' = IF cache.image /\ needs THEN FALSE ELSE needs
             /\ cached_result_' = IF rendered THEN fresh ELSE cache
             /\ cache_stale' = IF rendered THEN FALSE ELSE (cache.image /\ cache_stale)
             /\ frame' = [n |-> 1 - frame.n,
                          kind |-> IF full THEN "full" ELSE "cache",
                          size |-> current_size, model |-> model,
                          needed |-> needs_render_,
                          presented |-> IF rendered THEN fresh
                                        ELSE IF full THEN NoImage ELSE cache,
                          stale |-> ~full /\ cache.image /\ cache_stale]

renderFrame_KeepCacheOnModelSwitch(current_size, model, gaussians, has_focus, training_due, render_ok) ==
    /\ RenderFrameBody(current_size, model, gaussians, has_focus, training_due,
                       render_ok, TRUE)
    /\ UNCHANGED non_manager_vars

\* renderFrame(context, scene_manager): current_size is the render size of
\* the context, model the pointer getModelForRendering() returns and
\* gaussians its size(); training_due says that training is running and the
\* last training render is more than a second old; render_ok that
\* renderGaussians succeeds if it is called.
renderFrame(current_size, model, gaussians, has_focus, training_due, render_ok) ==
    /\ RenderFrameBody(current_size, model, gaussians, has_focus, training_due,
                       render_ok, FALSE)
    /\ UNCHANGED non_manager_vars

TrainerThread ==
    \/ TrainBegin
    \/ TrainCheckStop
    \/ TrainAcquire
    \/ TrainWrite
    \/ TrainFinish

MainThread ==
    \/ clearCurrentData
    \/ loadDataset
    \/ loadPLYFile
    \/ ClearJoin
    \/ ClearRest
    \/ ClearReturn
    \/ LoadDatasetSetup
    \/ LoadPLY
    \/ startTraining
    \/ DrawFrameBegin
    \/ DrawFrameCheck
    \/ DrawFrameLock
    \/ DrawFrameRender
    \/ DrawFrameUpload
    \/ DtorBegin
    \/ DtorJoin
    \/ DtorRest

Init == ViewerInit /\ SceneInit /\ ExportInit /\ CameraIdle /\ LoaderIdle /\ ParamIdle /\ RasterIdle /\ DataLoaderIdle /\ TileIdle /\ DropIdle /\ EngineIdle /\ ManagerIdle /\ SplitIdle /\ ProjectIdle

Next == TrainerThread \/ MainThread

Spec == Init /\ [][Next]_vars

\* The training thread is scheduled whenever it can run, and the main thread
\* does not stall inside an operation it has begun.
FairSpec ==
    /\ Spec
    /\ WF_vars(TrainerThread)
    /\ WF_vars(ClearJoin \/ ClearRest \/ ClearReturn)

\* --- Scene and strategy as a system of their own ---------------------------

SceneNext ==
    \/ \E name \in NodeNames, model \in Models : addNode(name, model)
    \/ \E name \in NodeNames : removeNode(name)
    \/ \E name \in NodeNames, visible \in BOOLEAN : setNodeVisibility(name, visible)
    \/ clear
    \/ \E name \in NodeNames : getMutableNode(name)
    \/ getCombinedModel
    \/ Densify
    \/ Prune
    \/ OptimizerStep

SceneSpec == Init /\ [][SceneNext]_vars

\* --- SplatData export as a system of its own ------------------------------

ExportNext ==
    \/ \E iteration \in 1..3, join_thread \in BOOLEAN : save_ply(iteration, join_thread)
    \/ SaveStart
    \/ SaveSyncWrite
    \/ ExportThreadRun
    \/ DestroySplatData

ExportSpec == Init /\ [][ExportNext]_vars

\* --- A Camera and its loaders as a system of their own --------------------

CameraSpecInit == ViewerInit /\ SceneInit /\ ExportInit /\ CameraInit /\ LoaderIdle /\ ParamIdle /\ RasterIdle /\ DataLoaderIdle /\ TileIdle /\ DropIdle /\ EngineIdle /\ ManagerIdle /\ SplitIdle /\ ProjectIdle

CameraNext ==
    \/ \E k \in Workers : LoadImage(k)
    \/ \E k \in Workers : WriteWidth(k)
    \/ \E k \in Workers : WriteHeight(k)

CameraSpec == CameraSpecInit /\ [][CameraNext]_vars

\* --- The files a reader or create_dataset_from_* may be given -------------

RECURSIVE Concat(_)
Concat(ss) == IF ss = <<>> THEN <<>> ELSE Head(ss) \o Concat(Tail(ss))

SeqsUpTo(S, n) == UNION {[1..k -> S] : k \in 0..n}

\* cameras.bin: the count, then per camera id, model id, width, height and
\* as many doubles as the model has parameters.
ParamBytes(model_id) ==
    IF model_id \in DOMAIN camera_model_ids /\ camera_model_ids[model_id].params > 0
    THEN 8 * camera_model_ids[model_id].params ELSE 0

EncCamera(id, model_id) ==
    LE(id, 4) \o LE(model_id, 4) \o LE(4, 8) \o LE(4, 8) \o Zeros(ParamBytes(model_id))

EncCameras(n, ms) ==
    LE(n, 8) \o Concat([i \in 1..Len(ms) |-> EncCamera(i, ms[i])])

\* images.bin: the count, then per image id, qvec, tvec, camera id, name,
\* NUL, the number of 2-D points and 24 bytes per point.
EncImage(id, im) ==
    LE(id, 4) \o Zeros(56) \o LE(im.camera_id, 4) \o <<96 + id, 0>>
        \o LE(im.npts, 8) \o Zeros(24 * im.npts)

EncImages(n, ims) ==
    LE(n, 8) \o Concat([i \in 1..Len(ims) |-> EncImage(i, ims[i])])

\* points3D.bin: the count, then per point 43 bytes of id, position, colour
\* and error, the track length and 8 bytes per track element.
EncPoint(track) == Zeros(43) \o LE(track, 8) \o Zeros(8 * track)

EncPoints(n, tracks) ==
    LE(n, 8) \o Concat([i \in 1..Len(tracks) |-> EncPoint(tracks[i])])

Truncations(bytes) == {SubSeq(bytes, 1, len) : len \in 0..Len(bytes)}

\* Model ids written in the files: PINHOLE, OPENCV_FISHEYE, FOV,
\* THIN_PRISM_FISHEYE, UNDEFINED, and an id COLMAP does not define.
FileModelIds == {1, 5, 7, 10, 11, 12}
ImageCameraIds == {1, 2, 9}

\* Every prefix of a file of up to MaxRecords records whose count is right
\* or one too large.
CamerasFiles(records) ==
    UNION {Truncations(EncCameras(Len(ms) + more, ms)) :
              ms \in SeqsUpTo({1, 7, 11}, records), more \in {0, 1}}
ImagesFiles(records) ==
    UNION {Truncations(EncImages(Len(ims) + more, ims)) :
              ims \in SeqsUpTo([camera_id : {1}, npts : {0, 1}], records),
              more \in {0, 1}}
PointsFiles(records) ==
    UNION {Truncations(EncPoints(Len(ts) + more, ts)) :
              ts \in SeqsUpTo({0, 1}, records), more \in {0, 1}}

Disk(kind, file) ==
    [NoDisk EXCEPT !.data_path_exists = TRUE,
                   !.cameras_bin = IF kind = "cameras" THEN file ELSE NoFile,
                   !.images_bin = IF kind = "images" THEN file ELSE NoFile,
                   !.points3D_bin = IF kind = "points3D" THEN file ELSE NoFile]

\* --- One binary reader called on one file ---------------------------------

ReaderInit ==
    /\ \E kind \in {"cameras", "images", "points3D"} :
          /\ rd = ReaderCall(kind)
          /\ \/ fs = Disk(kind, NoFile)
             \/ \E bytes \in (CASE kind = "cameras" -> CamerasFiles(MaxRecords)
                                [] kind = "images" -> ImagesFiles(MaxRecords)
                                [] kind = "points3D" -> PointsFiles(MaxRecords)) :
                   fs = Disk(kind, File(bytes))
    /\ ds = DatasetIdle

ReaderSpecInit == ViewerInit /\ SceneInit /\ ExportInit /\ CameraIdle /\ ReaderInit /\ ParamIdle /\ RasterIdle /\ DataLoaderIdle /\ TileIdle /\ DropIdle /\ EngineIdle /\ ManagerIdle /\ SplitIdle /\ ProjectIdle

ReaderNext ==
    \/ read_binary
    \/ ReadCount
    \/ ReadCameraRecord
    \/ ReadImageRecord
    \/ ReadPointRecord
    \/ ReaderFinish

ReaderSpec == ReaderSpecInit /\ [][ReaderNext]_vars

\* --- create_dataset_from_colmap / create_dataset_from_transforms ----------

\* A file as written, emptied, cut by one byte, or declaring one record more
\* than it holds.
Damaged(bytes) ==
    {<<>>, SubSeq(bytes, 1, Len(bytes) - 1), LE(ULE(bytes, 0, 8) + 1, 8) \o SubSeq(bytes, 9, Len(bytes))}

ColmapDisks(cams, images) ==
    LET base == [NoDisk EXCEPT !.data_path_exists = TRUE]
        whole == {[base EXCEPT !.cameras_bin = File(EncCameras(Len(ms), ms)),
                               !.images_bin = File(EncImages(Len(ims), ims)),
                               !.images_folder_exists = folder,
                               !.test_every = every] :
                     ms \in SeqsUpTo(FileModelIds, cams),
                     ims \in SeqsUpTo([camera_id : ImageCameraIds, npts : {0}], images),
                     folder \in BOOLEAN, every \in {0, 8}}
        one_image == EncImages(1, <<[camera_id |-> 1, npts |-> 0]>>)
        one_camera == EncCameras(1, <<1>>)
        damaged == {[base EXCEPT !.cameras_bin = File(c), !.images_bin = File(i),
                                 !.images_folder_exists = TRUE] :
                       c \in Damaged(one_camera) \cup {one_camera},
                       i \in Damaged(one_image) \cup {one_image}}
        missing == {[base EXCEPT !.cameras_bin = c, !.images_bin = i] :
                       c \in {NoFile, File(one_camera)}, i \in {NoFile, File(one_image)}}
    IN {NoDisk} \cup whole \cup damaged \cup missing

TransformsDisks(max_frames) ==
    LET base == [NoDisk EXCEPT !.format = "transforms"]
        there == [base EXCEPT !.data_path_exists = TRUE]
        json == [NoJson EXCEPT !.found = TRUE, !.parses = TRUE]
    IN {base, there, [there EXCEPT !.transforms = [NoJson EXCEPT !.found = TRUE]]}
       \cup {[there EXCEPT !.test_every = every,
                           !.transforms =
                              [json EXCEPT !.has_wh = has_wh, !.image_loads = loads,
                                           !.square = square, !.fl_x = fl_x,
                                           !.fl_y = fl_y, !.distortion = distortion,
                                           !.frames = frames]] :
                every \in {0, 8}, has_wh \in BOOLEAN, loads \in BOOLEAN,
                square \in BOOLEAN, fl_x \in {"fl_x", "camera_angle_x", "none"},
                fl_y \in {"fl_y", "camera_angle_y", "none"}, distortion \in BOOLEAN,
                frames \in SeqsUpTo({"ok", "no_transform_matrix", "wrong_dimensions"},
                                    max_frames)}

DatasetInit ==
    /\ fs \in ColmapDisks(MaxCams, MaxImages) \cup TransformsDisks(MaxFrames)
    /\ rd = ReaderIdle
    /\ ds = DatasetCall

DatasetSpecInit == ViewerInit /\ SceneInit /\ ExportInit /\ CameraIdle /\ DatasetInit /\ ParamIdle /\ RasterIdle /\ DataLoaderIdle /\ TileIdle /\ DropIdle /\ EngineIdle /\ ManagerIdle /\ SplitIdle /\ ProjectIdle

DatasetNext ==
    \/ CheckDataPath
    \/ get_sparse_file_path
    \/ read_binary
    \/ ReadCount
    \/ ReadCameraRecord
    \/ ReadImageRecord
    \/ ReaderFinish
    \/ ReturnCameras
    \/ ReturnImages
    \/ ReaderCrashed
    \/ read_colmap_cameras
    \/ read_transforms_cameras_and_images
    \/ MakeDataset

DatasetSpec == DatasetSpecInit /\ [][DatasetNext]_vars

\* --- read_optim_params_from_json on any optimization_params.json ---------

RECURSIVE SubsetsUpTo(_, _)
SubsetsUpTo(S, n) ==
    IF n = 0 THEN {{}}
    ELSE LET smaller == SubsetsUpTo(S, n - 1)
         IN smaller \cup {T \cup {x} : T \in smaller, x \in S}

\* Files with up to MaxMissing keys left out and up to MaxChanged keys
\* carrying a value other than the default.
ConfigFiles(max_missing, max_changed) ==
    {NoConfig, [NoConfig EXCEPT !.exists = TRUE]} \cup
    {[exists |-> TRUE, parses |-> TRUE,
      json |-> [k \in JsonKeys \ missing |->
                   IF k \in changed THEN FileValue ELSE DefaultValue]] :
        missing \in SubsetsUpTo(JsonKeys, max_missing),
        changed \in SubsetsUpTo(JsonKeys, max_changed)}

ParamInit ==
    /\ config_file \in ConfigFiles(MaxMissing, MaxChanged)
    /\ optim = [OptimIdle EXCEPT !.pc = "call"]

ParamSpecInit == ViewerInit /\ SceneInit /\ ExportInit /\ CameraIdle /\ LoaderIdle /\ ParamInit /\ RasterIdle /\ DataLoaderIdle /\ TileIdle /\ DropIdle /\ EngineIdle /\ ManagerIdle /\ SplitIdle /\ ProjectIdle

ParamNext ==
    \/ read_json_file
    \/ verify_optimization_parameters
    \/ ReadParams

ParamSpec == ParamSpecInit /\ [][ParamNext]_vars

\* --- fast_rasterize called on any model with any background --------------

RasterInit ==
    /\ \E gaussians \in SeqsUpTo([opacity : Opacities, colour : Colours], MaxSplats),
          info \in {<<>>, <<0, 0>>, <<1, 2>>} :
          gaussian_model = [gaussians |-> gaussians, _densification_info |-> info]
    /\ bg_color \in Colours
    /\ render_outputs = <<>>

RasterSpecInit == ViewerInit /\ SceneInit /\ ExportInit /\ CameraIdle /\ LoaderIdle /\ ParamIdle /\ RasterInit /\ DataLoaderIdle /\ TileIdle /\ DropIdle /\ EngineIdle /\ ManagerIdle /\ SplitIdle /\ ProjectIdle

RasterNext ==
    \/ \E colour \in Colours : SetBackground(colour)
    \/ fast_rasterize

RasterSpec == RasterSpecInit /\ [][RasterNext]_vars

\* --- The data loader over a dataset of any size ---------------------------

DataLoaderNext ==
    \/ \E n \in 0..MaxDataset, num_workers \in 0..MaxWorkers :
          create_dataloader_from_dataset(n, num_workers)
    \/ BeginEpoch
    \/ Prefetch
    \/ \E w \in LoaderWorkers : WorkerTake(w)
    \/ \E w \in LoaderWorkers : WorkerLoad(w)
    \/ NextBatch
    \/ NextBatchInline
    \/ EndEpoch

DataLoaderSpec == Init /\ [][DataLoaderNext]_vars

TileSpecInit == ViewerInit /\ SceneInit /\ ExportInit /\ CameraIdle /\ LoaderIdle /\ ParamIdle /\ RasterIdle /\ DataLoaderIdle /\ TileInit /\ DropIdle /\ EngineIdle /\ ManagerIdle /\ SplitIdle /\ ProjectIdle

TileNext ==
    \/ isect_tiles
    \/ intersect_tile
    \/ intersect_offset

TileSpec == TileSpecInit /\ [][TileNext]_vars

DropNext ==
    \/ \E paths \in DropEvents(MaxDropped) : glfwDrop(paths)
    \/ handleFileDrop
    \/ dropCallback

DropSpec == Init /\ [][DropNext]_vars

EngineNext ==
    \/ initialize
    \/ shutdown
    \/ \E viewport_size \in ViewportSizes \X ViewportSizes : renderGaussians(viewport_size)

EngineSpec == Init /\ [][EngineNext]_vars

\* The lifecycle and every public operation of the engine, renderGaussians
\* with one accepted and one refused viewport size.
LifecycleNext ==
    \/ initialize
    \/ shutdown
    \/ \E viewport_size \in {<<800, 800>>, <<0, 800>>} : renderGaussians(viewport_size)
    \/ \E has_image \in BOOLEAN : presentToScreen(has_image)
    \/ renderGrid
    \/ renderBoundingBox
    \/ renderCoordinateAxes
    \/ renderViewportGizmo
    \/ renderWithPipeline
    \/ createBoundingBox
    \/ createCoordinateAxes

LifecycleSpec == Init /\ [][LifecycleNext]_vars

SplitSpecInit == ViewerInit /\ SceneInit /\ ExportInit /\ CameraIdle /\ LoaderIdle /\ ParamIdle /\ RasterIdle /\ DataLoaderIdle /\ TileIdle /\ DropIdle /\ EngineIdle /\ ManagerIdle /\ SplitInit /\ ProjectIdle

SplitNext ==
    \/ \E _split \in Splits : CameraDataset(_split)
    \/ \E _split \in Splits, index \in 0..(MaxSplitCams + 1) : get(_split, index)

SplitSpec == SplitSpecInit /\ [][SplitNext]_vars

ProjectSpecInit == ViewerInit /\ SceneInit /\ ExportInit /\ CameraIdle /\ LoaderIdle /\ ParamIdle /\ RasterIdle /\ DataLoaderIdle /\ TileIdle /\ DropIdle /\ EngineIdle /\ ManagerIdle /\ SplitIdle /\ ProjectInit

ProjectNext ==
    \/ \E migrator \in Migrators : registerMigrator(migrator)
    \/ \E filepath \in {"out/project.ls", "missing/project.ls"} : readFromFile(filepath)
    \/ \E filepath \in {"", "out/project.ls", "out/notes.txt"}, opens \in BOOLEAN : writeToFile(filepath, opens)
    \/ \E path \in ProjectPaths : setProjectFileName(path)
    \/ setProjectName("orchard")
    \/ \E writes \in BOOLEAN, opens \in BOOLEAN : setProjectOutputFolder("out2", writes, opens)
    \/ \E writes \in BOOLEAN, opens \in BOOLEAN : setOptimizationParams(OptimizationParameters, writes, opens)
    \/ \E ply \in {p \in PlyDatas : ~p.is_imported}, opens \in BOOLEAN : addPly(ply, opens)
    \/ \E opens \in BOOLEAN : removePly(0, opens)

ProjectSpec == ProjectSpecInit /\ [][ProjectNext]_vars

ManagerNext ==
    \/ markDirty
    \/ WindowResized
    \/ \E current_size \in FrameSizes, model \in ModelPtrs, gaussians \in ModelSizes,
          has_focus \in BOOLEAN, training_due \in BOOLEAN, render_ok \in BOOLEAN :
          renderFrame(current_size, model, gaussians, has_focus, training_due, render_ok)

ManagerSpec == Init /\ [][ManagerNext]_vars

\* ------------------------------------------------------------------------
\* Claims about the viewer and the training thread
\* ------------------------------------------------------------------------

\* C1: drawFrame never renders the trainer-owned model without the shared
\* lock while the trainer holds the render mutex exclusively.
C1_NoUnlockedRenderDuringWrite ==
    ~(/\ mpc = "df_render"
      /\ scene_model = "trainer"
      /\ ~df_locked
      /\ render_mutex.writer)

\* C2: at most one training thread exists, and a thread is only launched by
\* startTraining when a trainer is loaded and the previous thread has been
\* joined and its handle reset.
C2_SingleTrainingThread ==
    /\ [](live_threads <= 1)
    /\ [][live_threads' > live_threads =>
            /\ live_threads = 0
            /\ training_thread_ = "null"
            /\ trainer_
            /\ tpc = "none"]_vars

C2_Witness ==
    /\ threads_started = 2
    /\ live_threads = 1
    /\ training_thread_ = "joinable"

\* C3: when clearCurrentData returns there is no training thread, trainer_
\* is null, the mode is Empty, both paths are empty and the training info is
\* zero; the trainer pointer and the scene model are never dropped while a
\* training thread is alive (also in the destructor); and a clearCurrentData
\* waiting in join() returns.
C3_TeardownOrdering ==
    /\ [](mpc = "clr_ret" =>
            /\ live_threads = 0
            /\ training_thread_ = "null"
            /\ tpc = "none"
            /\ ~trainer_
            /\ scene_model = "none"
            /\ current_mode_ = "Empty"
            /\ current_ply_path_ = ""
            /\ current_dataset_path_ = ""
            /\ info_ = InfoZero)
    /\ [](mpc = "destroyed" => live_threads = 0 /\ tpc = "none")
    /\ [][(trainer_ /\ ~trainer_') \/ (scene_model # "none" /\ scene_model' = "none")
            => live_threads = 0]_vars
    /\ (mpc = "clr_join" ~> mpc = "clr_ret")

C3_Witness ==
    /\ mpc = "clr_ret"
    /\ threads_started >= 1
    /\ stop_requested
    /\ iter >= 1

\* C4: the shared lock is held only while the render call of a frame is in
\* progress: it is released before the upload and on every path out of
\* drawFrame, so outside the render call the trainer's exclusive lock can
\* be granted.
C4_SharedLockOnlyDuringRender ==
    mpc # "df_render" => render_mutex.readers = 0

C4_Witness ==
    /\ mpc = "df_upload"
    /\ df_locked
    /\ tpc = "want_lock"
    /\ render_mutex.readers = 0

\* ------------------------------------------------------------------------
\* Claims about SplatData
\* ------------------------------------------------------------------------

WellFormed(m) == \A t \in Tensors : Len(m[t]) = size(m)

\* C5: in every reachable state the per-primitive tensors of every SplatData
\* (node models, the combined model built by rebuildCacheIfNeeded, the
\* trained model after densify and prune) have the leading dimension size(),
\* the optimizer moments have it too, and a valid combined model has one row
\* per primitive of the visible models.
C5_ConsistentLeadingDimension ==
    /\ \A i \in 1..Len(nodes_) : WellFormed(nodes_[i].model)
    /\ ~cached_combined_.isnull =>
          /\ WellFormed(cached_combined_)
          /\ cache_valid_ => size(cached_combined_) = SumSizes(VisibleModels(nodes_))
    /\ WellFormed(strategy.model)
    /\ \A t \in Tensors : Len(strategy.moments[t]) = size(strategy.model)

C5_Witness ==
    /\ cache_valid_
    /\ ~cached_combined_.isnull
    /\ Len(VisibleModels(nodes_)) = 2
    /\ size(cached_combined_) = 3
    /\ strategy.moments["means"] = <<1, 0>>

Constructed(cam) ==
    Camera(cam._focal_x, cam._focal_y, cam._center_x, cam._center_y,
           cam._camera_width, cam._camera_height, cam._uid)

\* C6: a Camera is immutable after construction: K() returns the intrinsics
\* of the constructed camera in every state, whatever load_and_get_image
\* calls the data-loader workers have made or are making.
C6_KNeverChanges == K(camera) = K(Constructed(camera))

\* ------------------------------------------------------------------------
\* Claims about the dataset loader
\* ------------------------------------------------------------------------

\* C8: no binary COLMAP reader reads at or beyond the end of its buffer;
\* the cursor stays within the buffer, and the reader ends by returning with
\* the cursor exactly at the end or by throwing.
C8_ReadsStayInBuffer ==
    /\ ~rd.oob
    /\ rd.cur <= Len(rd.buf)
    /\ rd.status # "crashed"
    /\ rd.status = "returned" => rd.cur = Len(rd.buf)

\* C9: create_dataset_from_colmap and create_dataset_from_transforms end
\* with a dataset or with an error string; a missing data_path gives "Data
\* path does not exist"; a dataset holds one Camera per camera record of the
\* reader, in order, with uid equal to its position.
C9_SucceedsOrReportsError ==
    ds.pc = "done" =>
        /\ ds.result.kind \in {"ok", "error"}
        /\ ~fs.data_path_exists =>
              ds.result = Unexpected("Data path does not exist")
        /\ ds.result.kind = "ok" =>
              /\ Len(ds.result.cameras) = Len(ds.infos)
              /\ \A i \in 1..Len(ds.infos) :
                    /\ ds.result.cameras[i]._uid = i - 1
                    /\ ds.result.cameras[i]._image_name = ds.infos[i]._image_name

Unsupported == {"FOV", "THIN_PRISM_FISHEYE", "UNDEFINED"}

\* The images that reference a camera of the given models.
Referencing(cams, images, models) ==
    {i \in 1..Len(images) :
        \E j \in 1..Len(cams) : /\ cams[j]._camera_ID = images[i]._camera_id
                                /\ cams[j]._camera_model \in models}

\* C10: read_cameras_binary never returns a camera of an unknown or
\* UNDEFINED model; read_colmap_cameras returns no list when an image
\* references a FOV, THIN_PRISM_FISHEYE or unknown camera; every camera of a
\* returned list, and of a created dataset, is PINHOLE or FISHEYE.
C10_UnsupportedModelsRejected ==
    /\ (rd.kind = "cameras" /\ rd.status = "returned") =>
          \A j \in 1..Len(rd.cams) :
             /\ \E id \in 0..10 : camera_model_ids[id].model = rd.cams[j]._camera_model
             /\ rd.cams[j]._camera_model # "UNDEFINED"
    /\ (ds.pc = "build" /\ fs.format = "colmap") =>
          Referencing(ds.cams, ds.images, Unsupported) = {}
    /\ \A i \in 1..Len(ds.infos) :
          ds.infos[i]._camera_model_type \in {"PINHOLE", "FISHEYE"}
    /\ \A i \in 1..Len(ds.result.cameras) :
          ds.result.cameras[i]._camera_model_type \in {"PINHOLE", "FISHEYE"}

\* A dataset was refused because its second image references a FOV camera,
\* the first referencing a fisheye camera that is supported.
C10_Witness ==
    /\ ds.pc = "done" /\ ds.result.kind = "error"
    /\ Len(ds.images) = 2
    /\ Referencing(ds.cams, ds.images, {"OPENCV_FISHEYE"}) = {1}
    /\ Referencing(ds.cams, ds.images, {"FOV"}) = {2}
    /\ fs.images_folder_exists

\* ------------------------------------------------------------------------
\* Claims about the optimization parameters
\* ------------------------------------------------------------------------

\* C11: for every key of expected_params present in optimization_params.json,
\* read_optim_params_from_json returns the value given in the file.
C11_FileValuesReturned ==
    optim.pc = "returned" =>
        \A k \in expected_params \cap DOMAIN optim.json :
            optim.params[k] = optim.json[k]

\* C12: read_transforms_cameras_and_images returns no camera whose focal
\* length is the unset placeholder -1: fl_x and fl_y of every returned
\* camera come from fl_x / camera_angle_x and fl_y / camera_angle_y of the
\* file, or fl_y is fl_x when the image is square.
C12_FocalNeverDefaulted ==
    fs.format = "transforms" =>
        \A i \in 1..Len(ds.infos) :
            /\ ds.infos[i]._focal_x \in {"fl_x", "camera_angle_x"}
            /\ ds.infos[i]._focal_y \in {"fl_y", "camera_angle_y", "fl_x", "camera_angle_x"}

\* ------------------------------------------------------------------------
\* Claims about the fast rasterizer
\* ------------------------------------------------------------------------

\* C13: the image and alpha fast_rasterize returns do not depend on
\* bg_color (any two calls on the same model return the same image and
\* alpha), the alpha is the rasterizer's own alpha, not all ones, and no call
\* changes the SplatData or its _densification_info.
C13_BackgroundNotComposited ==
    /\ [](\A i, j \in 1..Len(render_outputs) :
            /\ render_outputs[i].image = render_outputs[j].image
            /\ render_outputs[i].alpha = render_outputs[j].alpha)
    /\ [](\A i \in 1..Len(render_outputs) :
            render_outputs[i].alpha = Composite(gaussian_model.gaussians, 100, 0).alpha)
    /\ [][gaussian_model' = gaussian_model]_vars

\* Two calls with different backgrounds on a half-transparent model that
\* carries densification info.
C13_Witness ==
    /\ Len(render_outputs) = 2
    /\ render_outputs[1].bg_color # render_outputs[2].bg_color
    /\ render_outputs[2].alpha = 50
    /\ gaussian_model._densification_info # <<>>

\* ------------------------------------------------------------------------
\* Claims about the data loader
\* ------------------------------------------------------------------------

\* C14: within an epoch no dataset index is returned twice, and when the
\* epoch ends every index of the dataset has been returned exactly once,
\* for any number of workers and any order of completion.
C14_EachIndexOncePerEpoch ==
    /\ \A i, j \in 1..Len(yielded) : i # j => yielded[i] # yielded[j]
    /\ \A i \in 1..Len(yielded) : yielded[i] \in 0..(data_loader.dataset_size - 1)
    /\ (data_loader.pc = "idle" /\ epochs_done > 0) =>
          {yielded[i] : i \in 1..Len(yielded)} = 0..(data_loader.dataset_size - 1)

\* A second epoch over three cameras with two workers has ended, its
\* examples returned in an order other than 0, 1, 2.
C14_Witness ==
    /\ data_loader.pc = "idle" /\ epochs_done = 2
    /\ data_loader.dataset_size = 3 /\ data_loader.workers = 2
    /\ yielded = <<2, 0, 1>>

\* ------------------------------------------------------------------------
\* Claims about tile intersection and sorting
\* ------------------------------------------------------------------------

\* The positions of the sorted list that isect_offsets assigns to camera-tile k.
TileSlice(k) ==
    LET last == IF k + 1 < isect.C * n_tiles THEN isect.isect_offsets[k + 1]
                ELSE Len(isect.out.flatten_ids)
    IN  (isect.isect_offsets[k] + 1)..last

DepthOf(flat) == isect.splats[flat \div isect.N][flat % isect.N].depth

\* Within every camera-tile slice the depths do not decrease.
DepthOrdered ==
    \A k \in 0..(isect.C * n_tiles - 1) :
        \A i, j \in TileSlice(k) :
            i < j => DepthOf(isect.out.flatten_ids[i]) <= DepthOf(isect.out.flatten_ids[j])

\* The list is grouped by camera and tile in increasing order, and the slice
\* of a camera-tile holds exactly the pairs of that tile.
GroupedByTile ==
    /\ \A i, j \in 1..Len(isect.out.isect_ids) :
          i < j => TileKey(isect.out.isect_ids[i]) <= TileKey(isect.out.isect_ids[j])
    /\ \A k \in 0..(isect.C * n_tiles - 1) :
          TileSlice(k) = {i \in 1..Len(isect.out.isect_ids) : TileKey(isect.out.isect_ids[i]) = k}

PlyPath(p) == p.ext \in {".ply", ".PLY"}

DatasetDirectory(p) ==
    /\ p.dir
    /\ p.files \cap {"sparse/0/cameras.bin", "sparse/cameras.bin",
                     "transforms.json", "transforms_train.json"} # {}

Loadable(p) == PlyPath(p) \/ DatasetDirectory(p)

C17_ValidatedThenPipelineResult ==
    render_call.called =>
        IF \/ ~render_call.initialized
           \/ \E i \in 1..2 : render_call.size[i] <= 0 \/ render_call.size[i] > 16384
        THEN ~render_call.result.ok /\ ~render_call.invoked
        ELSE /\ render_call.invoked
             /\ render_call.result.ok = render_call.pipeline_result.ok
             /\ render_call.result.ok =>
                   /\ render_call.result.image = render_call.pipeline_result.image
                   /\ render_call.result.depth = render_call.pipeline_result.depth
             /\ ~render_call.result.ok =>
                   render_call.result.error = render_call.pipeline_result.error

\* An initialized engine was asked for the largest accepted viewport and
\* handed back what the pipeline rendered.
C17_Witness ==
    /\ render_call.called /\ render_call.initialized
    /\ render_call.size = <<16384, 1>>
    /\ render_call.invoked
    /\ render_call.result = [ok |-> TRUE, image |-> "image2", depth |-> "depth1", error |-> ""]

\* ------------------------------------------------------------------------
\* Claims about the rendering manager
\* ------------------------------------------------------------------------

\* C18: after markDirty() an image rendered before the change is never
\* presented again: the next renderFrame with a valid viewport size and a
\* model performs a full render, and the cache is presented only once it
\* holds a result rendered after the change, also when a render attempt
\* fails.
C18_NoStaleImagePresented ==
    [][/\ ~(frame'.kind = "cache" /\ frame'.stale)
       /\ (frame'.n # frame.n /\ needs_render_ /\ frame'.kind # "skipped"
              /\ frame'.model # 0) => frame'.kind = "full"]_vars

\* C19: whenever renderFrame presents cached_result_ instead of rendering,
\* the cached image was rendered for the current render size and the
\* current model pointer.
C19_CacheMatchesSizeAndModel ==
    frame.kind = "cache" =>
        /\ frame.presented.image
        /\ frame.presented.size = frame.size
        /\ frame.presented.model = frame.model

\* The second model at the larger size is presented from the cache while
\* the last frame before was for another size or model.
C19_Witness ==
    /\ frame.kind = "cache"
    /\ frame.size = <<1024, 768>> /\ frame.model = 2
    /\ frame.presented = [image |-> TRUE, size |-> <<1024, 768>>, model |-> 2]
    /\ ~needs_render_

\* ------------------------------------------------------------------------
\* Claims about the scene's combined model
\* ------------------------------------------------------------------------

\* The nodes whose model goes into the combined model, in the order of nodes_.
ShownNodes(nodes) == SelectSeq(nodes, LAMBDA n : n.visible /\ ~n.model.isnull)

\* The rows of tensor t of the shown nodes' models, one model after another.
ConcatRows(nodes, t) ==
    Concat([i \in 1..Len(ShownNodes(nodes)) |-> ShownNodes(nodes)[i].model[t]])

\* C20: after any sequence of addNode, removeNode, setNodeVisibility and
\* clear, what getCombinedModel() returns (the cached model whenever the
\* cache is valid) is null iff no node with a model is visible, and
\* otherwise the concatenation, in the order of the nodes, of the models of
\* exactly the visible nodes; a valid cache is never stale, and
\* getTotalGaussianCount() equals the combined model's row count.
C20_CombinedModelIsVisibleNodes ==
    cache_valid_ =>
        /\ cached_combined_.isnull <=> ShownNodes(nodes_) = << >>
        /\ cached_combined_.isnull => getTotalGaussianCount(nodes_) = 0
        /\ ~cached_combined_.isnull =>
              /\ \A t \in {"means", "sh0", "scaling", "rotation", "opacity"} :
                    cached_combined_[t] = ConcatRows(nodes_, t)
              /\ Len(cached_combined_.shN) = Len(ConcatRows(nodes_, "shN"))
              /\ getTotalGaussianCount(nodes_) = size(cached_combined_)

\* Node "b" was added before node "a"; both are visible and the valid
\* cache holds the rows of b's two primitives followed by a's one.
C20_Witness ==
    /\ cache_valid_
    /\ Len(nodes_) = 2
    /\ nodes_[1].name = "b" /\ nodes_[2].name = "a"
    /\ nodes_[1].visible /\ nodes_[2].visible
    /\ ~cached_combined_.isnull
    /\ cached_combined_.means = <<2, 3, 1>>

\* ------------------------------------------------------------------------
\* Claims about the nodes of the scene
\* ------------------------------------------------------------------------

UniqueNames(nodes) ==
    \A i, j \in 1..Len(nodes) : nodes[i].name = nodes[j].name => i = j

\* What addNode(name, model) must have done to the node list.
AddNodeEffect(name, model) ==
    LET present == \E i \in 1..Len(nodes_) : nodes_[i].name = name
    IN IF present
       THEN /\ Len(nodes_') = Len(nodes_)
            /\ \A i \in 1..Len(nodes_) :
                  /\ nodes_'[i].name = nodes_[i].name
                  /\ nodes_'[i].transform = nodes_[i].transform
                  /\ nodes_'[i].visible = nodes_[i].visible
                  /\ IF nodes_[i].name = name
                     THEN /\ nodes_'[i].model = model
                          /\ nodes_'[i].gaussian_count = size(model)
                     ELSE nodes_'[i] = nodes_[i]
       ELSE /\ Len(nodes_') = Len(nodes_) + 1
            /\ SubSeq(nodes_', 1, Len(nodes_)) = nodes_
            /\ nodes_'[Len(nodes_')] =
                  [name |-> name, model |-> model, transform |-> "identity",
                   visible |-> TRUE, gaussian_count |-> size(model)]

\* C21: node names are unique in every reachable Scene state; addNode with
\* a name that exists replaces that node's model and gaussian_count in
\* place, keeping its position, transform and visibility, and adds no node;
\* addNode with a new name appends a visible node with identity transform.
C21_NamesUniqueAddReplaces ==
    /\ [](UniqueNames(nodes_))
    /\ [][\A name \in NodeNames, model \in Models :
             addNode(name, model) => AddNodeEffect(name, model)]_vars

\* Node "a", added first and hidden since, carries the one-primitive model
\* of degree 1 at the first position, in front of the visible node "b".
C21_Witness ==
    /\ Len(nodes_) = 2
    /\ nodes_[1].name = "a" /\ ~nodes_[1].visible
    /\ nodes_[1].model = LoadedModel(<<4>>, 1) /\ nodes_[1].gaussian_count = 1
    /\ nodes_[2].name = "b" /\ nodes_[2].visible
    /\ ~cache_valid_

\* ------------------------------------------------------------------------
\* Claims about the lifecycle of the rendering engine
\* ------------------------------------------------------------------------

\* C22: isInitialized() is true exactly between a successful initialize()
\* and the next shutdown(); when the grid, bounding-box, axes, gizmo or
\* shader initialization fails, initialize() returns that error with the
\* engine shut down, so isInitialized() is false; initialize() on an
\* initialized engine and shutdown() on an engine that is shut down change
\* nothing.
C22_InitializedBetweenInitAndShutdown ==
    /\ [](isInitialized <=> started)
    /\ [][initialize =>
            IF isInitialized
            THEN init_call'.ok /\ UNCHANGED <<quad_shader_, screen_renderer_, renderers_>>
            ELSE IF init_call'.ok
            THEN isInitialized'
            ELSE /\ init_call'.error \in {InitError(InitSteps[k]) : k \in 1..Len(InitSteps)}
                 /\ ~quad_shader_' /\ ~screen_renderer_']_vars
    /\ [][shutdown /\ ~quad_shader_ /\ ~screen_renderer_ =>
            UNCHANGED <<quad_shader_, screen_renderer_, renderers_>>]_vars

\* initialize() failed at the axes renderer, after the grid and the
\* bounding-box renderers had been initialised, and left the engine shut
\* down.
C22_Witness ==
    /\ init_call.called /\ ~init_call.ok
    /\ init_call.error = InitError("axes_renderer_")
    /\ renderers_ = {"grid_renderer_", "bbox_renderer_"}
    /\ ~isInitialized /\ ~screen_renderer_

\* C23: no public rendering operation performs rendering work while
\* isInitialized() is false; each reports failure (an error, or
\* valid == false) instead.
C23_NoRenderingWhenUninitialized ==
    /\ (op_call.op # "none" /\ ~op_call.initialized) => (~op_call.worked /\ ~op_call.ok)
    /\ (render_call.called /\ ~render_call.initialized) =>
          (~render_call.invoked /\ ~render_call.result.ok)

\* ------------------------------------------------------------------------
\* Claims about the splits of a CameraDataset
\* ------------------------------------------------------------------------

IndexSet(_split) == {datasets[_split]._indices[k] : k \in 1..Len(datasets[_split]._indices)}

\* Positions of the camera vector a split is to hold.
SplitPositions(_split) ==
    {i \in 0..(Len(split_input._cameras) - 1) :
        \/ _split = "ALL"
        \/ _split = "VAL" /\ i % split_input.test_every = 0
        \/ _split = "TRAIN" /\ i % split_input.test_every # 0}

\* The position that has `index` positions of the split in front of it.
NthPosition(_split, index) ==
    CHOOSE i \in SplitPositions(_split) :
        Cardinality({j \in SplitPositions(_split) : j < i}) = index

\* C24: for any camera list and test_every >= 1 the TRAIN and VAL splits
\* are disjoint and their union is the ALL split; VAL holds exactly the
\* cameras at the positions i with i % test_every = 0; each split keeps
\* the camera order; get(index) throws out_of_range for index >= size()
\* and otherwise returns the camera at the index-th position of the split.
C24_SplitsPartitionAll ==
    /\ \A s \in Splits : datasets[s].built =>
          /\ IndexSet(s) = SplitPositions(s)
          /\ \A k \in 1..(Len(datasets[s]._indices) - 1) :
                datasets[s]._indices[k] < datasets[s]._indices[k + 1]
    /\ (\A s \in Splits : datasets[s].built) =>
          /\ IndexSet("TRAIN") \cap IndexSet("VAL") = {}
          /\ IndexSet("TRAIN") \cup IndexSet("VAL") = IndexSet("ALL")
    /\ get_call.called =>
          IF get_call.index >= Cardinality(SplitPositions(get_call.split))
          THEN get_call.thrown = "out_of_range"
          ELSE /\ get_call.thrown = ""
               /\ get_call.camera =
                     split_input._cameras[NthPosition(get_call.split, get_call.index) + 1]

\* Four cameras split with test_every = 3: VAL holds the first and the last
\* camera, TRAIN the two between them, and get(1) on VAL returned the last.
C24_Witness ==
    /\ split_input._cameras = <<13, 10, 12, 11>> /\ split_input.test_every = 3
    /\ \A s \in Splits : datasets[s].built
    /\ datasets["VAL"]._indices = <<0, 3>>
    /\ datasets["TRAIN"]._indices = <<1, 2>>
    /\ get_call.called /\ get_call.split = "VAL" /\ get_call.index = 1
    /\ get_call.camera = 11

\* ------------------------------------------------------------------------
\* Claims about the project file
\* ------------------------------------------------------------------------

\* The top-level keys serializeProjectData writes itself.
KnownKeys ==
    {"project_info", "version", "project_name", "project_creation_time",
     "project_last_update_time", "project_output_folder", "data", "training", "outputs"}

\* C25: additional_fields holds only fields unknown to the parser, so the
\* JSON produced by serializeProjectData carries the in-memory value of every
\* known field (version, names, timestamps, project_output_folder, data,
\* training.optimization, outputs.plys), also for project data that was
\* read from a file and modified afterwards.
C25_SerializedKnownFieldsCurrent ==
    LET data == project_data_
        json == serializeProjectData(data)
    IN /\ DOMAIN data.additional_fields \cap KnownKeys = {}
       /\ json["version"] = toString(data.version)
       /\ json["project_name"] = data.project_name
       /\ json["project_creation_time"] = data.project_creation_time
       /\ json["project_last_update_time"] = data.project_last_update_time
       /\ json["project_output_folder"] = data.data_set_info.output_path
       /\ json["data"]["data_path"] = data.data_set_info.data_path
       /\ json["data"]["test_every"] = data.data_set_info.test_every
       /\ json["training"]["optimization"] = to_json(data.optimization)
       /\ json["outputs"]["plys"] = [i \in 1..Len(data.outputs.plys) |-> PlyJson(data.outputs.plys[i])]


\* C26: whenever readFromFile returns false (the file cannot be opened, the
\* JSON structure is invalid, no migration path exists from an older
\* version, or parsing throws) project_data_ is unchanged; it is replaced
\* as a whole only when readFromFile returns true.
C26_FailedReadLeavesProjectData ==
    [][\A filepath \in {"out/project.ls", "missing/project.ls"} :
          readFromFile(filepath) =>
             IF read_call'.returned
             THEN /\ read_call'.reason = ""
                  /\ project_data_' = parseProjectData(
                        migrateToVersion(project_file.fields, VersionOf(project_file.fields["version"]),
                                         CURRENT_VERSION).json)
             ELSE /\ read_call'.reason \in {"cannot open", "not json", "invalid structure",
                                            "version throws", "no migration", "parse throws"}
                  /\ project_data_' = project_data_]_vars

\* A project that had been renamed and given an output folder kept both
\* when reading a file whose test_every is not a number failed.
C26_Witness ==
    /\ read_call.called /\ ~read_call.returned
    /\ read_call.reason = "parse throws"
    /\ "test_every" \in project_file.mistyped
    /\ project_data_.project_name = "orchard"
    /\ project_data_.data_set_info.output_path = "out2"

====
